---- MODULE Spec2Model ----
(***************************************************************************)
(* Model of JaimeStill/go-sqlite: the phase-1 document handlers            *)
(* (01-foundation/fts5-foundation) and the phase-2 corpus and search       *)
(* handlers (02-bm25-fundamentals/bm25-fundamentals).                      *)
(*                                                                         *)
(* Text is a sequence of one-character strings, so that strings.TrimSpace, *)
(* strings.Fields, strings.Split, strings.ToLower and strings.Count are    *)
(* computed character by character as the Go library computes them.        *)
(* Scores returned by SQLite's bm25() are fixed-point integers, in         *)
(* thousandths.                                                            *)
(*                                                                         *)
(* Three specifications share the module: Spec (phase-2 searching),        *)
(* SpecDoc (phase-1 document commands) and SpecTx (the transactional       *)
(* commands of both programs).                                             *)
(***************************************************************************)
EXTENDS Integers, Sequences, FiniteSets, TLC

VARIABLES
    documents,  \* phase 2: rows of table documents, row i has id i
    rank,       \* phase 2: rank[i] is the value bm25(documents_fts) yields for row i
    resp,       \* phase 2: what the last search/visualize command returned
    prog,       \* transactions: the program that runs, 1 = fts5-foundation, 2 = bm25-fundamentals
    store,      \* transactions: the committed rows of its documents table
    txn,        \* transactions: the open transaction of the running command
    run,        \* transactions: the running command and where it stands
    seen,       \* transactions: what another connection last read
    table,      \* phase 1: the rows of FTS5 table documents, by rowid
    prior,      \* phase 1: the rows as they were when the last call started
    docResp,    \* phase 1: the last call and what it returned
    calc        \* pure functions: the function applied, its inputs and its value

searchVars == <<documents, rank, resp>>
txVars == <<prog, store, txn, run, seen>>
docVars == <<table, prior, docResp>>
calcVars == <<calc>>
vars == <<documents, rank, resp, prog, store, txn, run, seen, table, prior, docResp, calc>>

----------------------------------------------------------------------------
(* Bounds of the model *)

MaxDocs == 2        \* rows the documents table may hold
MaxLimit == 2       \* largest --max-results value a command is given
MaxBatch == 2       \* documents in one batch
MaxStored == 3      \* rows the phase-1 table may hold after batch inserts
MaxRows == 2        \* largest rowid the phase-1 table assigns
MaxScores == 5      \* scores in one list the statistics are computed of
MaxBuckets == 3     \* largest --buckets value visualize distribution is given
MaxTF == 17         \* most occurrences of the query term in one document
MaxSize == 2        \* documents one run of GenerateCorpus generates
MaxHits == 3        \* documents matching the query of search compare
MaxAdded == 6       \* results added to one validation suite
MaxOther == 1       \* statements of other connections between the two of a call
MaxPeriod == 2      \* values after which a random source repeats

(* Program constants *)

DefaultMaxResults == 20     \* models.DefaultSearchOptions().MaxResults
ConfigMaxResults == 20      \* config.NewConfig().Search.MaxResults
DefaultLimit == 10          \* fts5-foundation SearchDocuments: limit = 10
StatsMaxResults == 1000     \* HandleStats: options.MaxResults = 1000
CompareDefault == 10        \* search compare --max-results default
ExplainDefault == 5         \* search explain --max-results default
CategoriesDefault == 100    \* visualize categories --max-results default
HistogramBuckets == 10      \* calculateScoreDistribution: createScoreBuckets(scores, 10)
DistributionBuckets == 10   \* visualize distribution --buckets default
DistributionDefault == 100  \* visualize distribution --max-results default
RangeDefault == 100         \* visualize range --max-results default

----------------------------------------------------------------------------
(* strings package, character by character *)

IsSpace(c) == c = " "

RECURSIVE TrimLeft(_)
TrimLeft(s) ==
    IF s = <<>> THEN <<>>
    ELSE IF IsSpace(Head(s)) THEN TrimLeft(Tail(s)) ELSE s

RECURSIVE TrimRight(_)
TrimRight(s) ==
    IF s = <<>> THEN <<>>
    ELSE IF IsSpace(s[Len(s)]) THEN TrimRight(SubSeq(s, 1, Len(s) - 1)) ELSE s

TrimSpace(s) == TrimRight(TrimLeft(s))

RECURSIVE FieldsFrom(_, _, _)
FieldsFrom(s, cur, acc) ==
    IF s = <<>> THEN (IF cur = <<>> THEN acc ELSE Append(acc, cur))
    ELSE IF IsSpace(Head(s))
         THEN FieldsFrom(Tail(s), <<>>, IF cur = <<>> THEN acc ELSE Append(acc, cur))
         ELSE FieldsFrom(Tail(s), Append(cur, Head(s)), acc)

Fields(s) == FieldsFrom(s, <<>>, <<>>)

RECURSIVE SplitFrom(_, _, _, _)
SplitFrom(s, sep, cur, acc) ==
    IF s = <<>> THEN Append(acc, cur)
    ELSE IF Head(s) = sep
         THEN SplitFrom(Tail(s), sep, <<>>, Append(acc, cur))
         ELSE SplitFrom(Tail(s), sep, Append(cur, Head(s)), acc)

Split(s, sep) == SplitFrom(s, sep, <<>>, <<>>)

LowerChar(c) ==
    CASE c = "A" -> "a"
      [] c = "B" -> "b"
      [] c = "E" -> "e"
      [] c = "N" -> "n"
      [] c = "S" -> "s"
      [] c = "X" -> "x"
      [] c = "Y" -> "y"
      [] OTHER -> c

ToLower(s) == [i \in 1..Len(s) |-> LowerChar(s[i])]

RECURSIVE Count(_, _)
Count(s, sub) ==
    IF sub = <<>> THEN Len(s) + 1
    ELSE IF Len(s) < Len(sub) THEN 0
    ELSE IF SubSeq(s, 1, Len(sub)) = sub
         THEN 1 + Count(SubSeq(s, Len(sub) + 1, Len(s)), sub)
         ELSE Count(Tail(s), sub)

SpaceJoin(a, b) == a \o <<" ">> \o b

Range(s) == {s[i] : i \in 1..Len(s)}

Min(a, b) == IF a < b THEN a ELSE b

Abs(x) == IF x < 0 THEN -x ELSE x

----------------------------------------------------------------------------
(* Phase 2 (bm25-fundamentals): the documents table and the FTS5 engine *)

(* Inputs the commands are given *)
Titles == {<<"A">>, <<"b", " ", "b">>}
Contents == {<<"a", "b", " ", "a">>}
Categories == {<<"x">>, <<"y">>}
ScoreValues == {0 - 1500, 0 - 500}
Queries == {<<"A">>, <<"b">>, <<" ">>, <<>>}
MaxFlags == (0 - 1)..MaxLimit
CategoryFlags == {<<>>} \cup Categories
FilterFlags == {<<>>, <<"x">>, <<"y">>, <<"x", ",", " ", "y">>}
BucketFlags == (0 - 1)..MaxBuckets \cup {DistributionBuckets}

NoArgs == [maxResults |-> 0, filter |-> <<>>, buckets |-> 0]

(* What a run of a command has done: pc is "searched" between the two
   statements of search explain and "done" otherwise; modified tells that
   another connection has written to the table since the command searched
   it. *)
NoResp ==
    [cmd |-> "none", pc |-> "done", modified |-> FALSE,
     args |-> NoArgs, err |-> "nil", results |-> <<>>,
     options |-> [Query |-> <<>>, MaxResults |-> 0, CategoryFilter |-> <<>>,
                  ExplainScores |-> FALSE],
     explanations |-> <<>>, categoryMap |-> <<>>, analysis |-> <<>>]

(* CorpusHandler.InsertDocument: Length is the whitespace token count of
   title + " " + content *)
DocLength(title, content) == Len(Fields(SpaceJoin(title, content)))

(* models.DefaultSearchOptions *)
DefaultSearchOptions ==
    [Query |-> <<>>, MaxResults |-> DefaultMaxResults, CategoryFilter |-> <<>>,
     ExplainScores |-> FALSE]

(* documents_fts MATCH ?: a row matches when every term of the query is a
   token of one of its three indexed columns (unicode61 folds case); an
   empty expression is a syntax error of the engine. *)
QueryIsEmpty(query) == Fields(query) = <<>>

Matches(row, query) ==
    LET terms == Range(Fields(ToLower(query)))
        tokens == Range(Fields(ToLower(
                      SpaceJoin(SpaceJoin(row.Title, row.Content), row.Category))))
    IN  terms \subseteq tokens

(* A statement built without its LIMIT clause *)
buildSearchQueryNoLimit(options) ==
    [match |-> options.Query,
     hasCategory |-> options.CategoryFilter # <<>>,
     category |-> options.CategoryFilter,
     hasLimit |-> FALSE,
     limit |-> options.MaxResults]

(* SearchHandler.buildSearchQuery: MATCH ?, optional AND d.category = ?,
   ORDER BY score, and LIMIT ? only when MaxResults > 0. *)
buildSearchQuery(options) ==
    [match |-> options.Query,
     hasCategory |-> options.CategoryFilter # <<>>,
     category |-> options.CategoryFilter,
     hasLimit |-> options.MaxResults > 0,
     limit |-> options.MaxResults]

(* Rows the WHERE clause keeps *)
Candidates(q) ==
    {i \in 1..Len(documents) :
        /\ Matches(documents[i], q.match)
        /\ q.hasCategory => documents[i].Category = q.category}

(* The MATCH expressions the commands are given that the engine accepts *)
Expressions == {query \in Queries : ~QueryIsEmpty(query)}

(* bm25(documents_fts): a value for each row and each expression the row
   matches.  It is computed from the terms of the expression and from the
   whole index (the number of rows, the rows holding each term, the average
   length), so the values of all rows are open again after every write. *)
Bm25(rows) ==
    LET matched == [i \in 1..Len(rows) |->
                       {query \in Expressions : Matches(rows[i], query)}]
    IN  {r \in [1..Len(rows) ->
                   UNION {[matched[i] -> ScoreValues] : i \in 1..Len(rows)}] :
            \A i \in 1..Len(rows) : DOMAIN r[i] = matched[i]}

(* CorpusHandler.InsertDocument: the row gets the next id, and the
   after-insert trigger indexes it in documents_fts *)
InsertDocument(title, content, category) ==
    /\ Len(documents) < MaxDocs
    /\ documents' = Append(documents,
                           [ID |-> Len(documents) + 1, Title |-> title,
                            Content |-> content, Category |-> category,
                            Length |-> DocLength(title, content)])
    /\ rank' \in Bm25(documents')

(* CorpusHandler.ClearDocuments, committed: DELETE FROM documents, the
   triggers empty the index, and the id counter starts again *)
ClearDocuments ==
    /\ documents' = <<>>
    /\ rank' = <<>>

(* ORDER BY score, the only key of the sort: row i may come before row j
   when it does not score higher for the expression.  The statement names
   no second key, so the engine is free in the order of rows of equal
   score. *)
Before(query, i, j) == rank[i][query] <= rank[j][query]

(* ORDER BY score [LIMIT k]: the sequences of k of the candidates M the
   statement may return, each candidate at most once *)
Ordered(query, M, k) ==
    {s \in [1..k -> M] :
        /\ \A i, j \in 1..k : i < j => s[i] # s[j] /\ Before(query, s[i], s[j])
        /\ \A d \in M : (\A i \in 1..k : s[i] # d) =>
                            \A i \in 1..k : Before(query, s[i], d)}

RunQuery(q) ==
    UNION {Ordered(q.match, M, IF q.hasLimit THEN Min(q.limit, Cardinality(M))
                               ELSE Cardinality(M)) : M \in {Candidates(q)}}

(* SearchHandler.classifyRelevance *)
classifyRelevance(score) ==
    IF score >= 0 - 1000 THEN "excellent"
    ELSE IF score >= 0 - 2000 THEN "good"
    ELSE IF score >= 0 - 4000 THEN "fair"
    ELSE "poor"

(* One turn of the rows.Next loop of Search: the row scanned, score being
   bm25(documents_fts) for the expression searched *)
SearchResult(query, i) ==
    [ID |-> documents[i].ID, Title |-> documents[i].Title,
     Content |-> documents[i].Content, Category |-> documents[i].Category,
     Length |-> documents[i].Length, Score |-> rank[i][query],
     Relevance |-> classifyRelevance(rank[i][query])]

(* SearchHandler.Search: the set of (results, error) pairs a call may return.
   The query text is handed to the engine unchecked; an error of the engine
   surfaces from QueryContext (FTS5f) or from rows.Err (Databasef). *)
Search(options) ==
    LET q == buildSearchQuery(options)
    IN  IF QueryIsEmpty(q.match)
        THEN {[results |-> <<>>, err |-> e] : e \in {"fts5", "database"}}
        ELSE {[results |-> [i \in 1..Len(s) |-> SearchResult(q.match, s[i])],
                  err |-> "nil"] :
                 s \in RunQuery(q)}

----------------------------------------------------------------------------
(* Score explanations (search explain) *)

(* getAverageDocumentLength: SELECT AVG(length) FROM documents, kept as the
   exact fraction sum / n.  AVG over no row is NULL, which Scan cannot store
   in a float64: the error is wrapped by Databasef. *)
RECURSIVE SumLengths(_)
SumLengths(rows) ==
    IF rows = <<>> THEN 0 ELSE Head(rows).Length + SumLengths(Tail(rows))

getAverageDocumentLength ==
    [sum |-> SumLengths(documents), n |-> Len(documents),
     err |-> IF Len(documents) = 0 THEN "database" ELSE "nil"]

(* A normalization that divides the average length by the document length:
   k1 * ((1 - b) + b * avgLength / docLength), the fraction
   (3 * docLength * n + 9 * sum) / (10 * docLength * n) *)
calculateLengthNormalizationInverse(docLength, avg) ==
    [num |-> 3 * docLength * avg.n + 9 * avg.sum, den |-> 10 * docLength * avg.n]

(* calculateLengthNormalization: k1 * ((1 - b) + b * docLength / avgLength)
   with k1 = 1.2, b = 0.75 and avgLength = sum / n, which is the fraction
   (3 * sum + 9 * docLength * n) / (10 * sum) *)
calculateLengthNormalization(docLength, avg) ==
    [num |-> 3 * avg.sum + 9 * docLength * avg.n, den |-> 10 * avg.sum]

(* calculateTermScore: tf counts the occurrences of the term in the lowered
   title + " " + content + " " + category; idf = 3.0 - 0.1 * tf, at least 0.1
   (IDF10 is ten times idf); Score = idf * tf / lengthNorm, as the fraction
   ScoreNum / ScoreDen *)
calculateTermScore(term, result, avg) ==
    LET text == ToLower(SpaceJoin(SpaceJoin(result.Title, result.Content),
                                  result.Category))
        tf == Count(text, term)
        idf10 == IF 30 - tf < 1 THEN 1 ELSE 30 - tf
        norm == calculateLengthNormalization(result.Length, avg)
    IN  [Term |-> term, TF |-> tf, IDF10 |-> idf10,
         ScoreNum |-> idf10 * tf * norm.den, ScoreDen |-> 10 * norm.num]

(* GenerateScoreExplanations: the error of getAverageDocumentLength, or one
   explanation per result; TotalScore is the score the search returned,
   QueryTerms come from calculateTermScore *)
GenerateScoreExplanations(results, options) ==
    LET avg == getAverageDocumentLength
        queryTerms == Fields(ToLower(options.Query))
    IN  IF avg.err # "nil" THEN [explanations |-> <<>>, err |-> avg.err]
        ELSE [explanations |->
                 [r \in 1..Len(results) |->
                     [DocumentID |-> results[r].ID,
                      TotalScore |-> results[r].Score,
                      QueryTerms |->
                          [t \in 1..Len(queryTerms) |->
                              calculateTermScore(queryTerms[t], results[r], avg)],
                      Length |-> results[r].Length,
                      FieldLengths |->
                          [title |-> Len(Fields(results[r].Title)),
                           content |-> Len(Fields(results[r].Content)),
                           category |-> Len(Fields(results[r].Category))]]],
              err |-> "nil"]

----------------------------------------------------------------------------
(* Category comparison (visualize categories) *)

(* HandleCategories: the --filter value split at commas, each part trimmed *)
ParseFilter(filter) ==
    IF filter = <<>> THEN <<>>
    ELSE LET parts == Split(filter, ",")
         IN  [i \in 1..Len(parts) |-> TrimSpace(parts[i])]

RECURSIVE SelectCategory(_, _)
SelectCategory(results, c) ==
    IF results = <<>> THEN <<>>
    ELSE IF Head(results).Category = c
         THEN <<Head(results).Score>> \o SelectCategory(Tail(results), c)
         ELSE SelectCategory(Tail(results), c)

(* generateCategoryComparison: the results already returned by the search,
   grouped by category; with a filter, results of other categories are
   skipped.  Each group is the list of its scores in result order. *)
generateCategoryComparison(results, filter) ==
    LET present == {results[i].Category : i \in 1..Len(results)}
        kept == IF Len(filter) > 0 THEN present \cap Range(filter) ELSE present
    IN  [c \in kept |-> [Name |-> c, Scores |-> SelectCategory(results, c),
                         Count |-> Len(SelectCategory(results, c))]]

----------------------------------------------------------------------------
(* Search statistics (search stats, visualize distribution, visualize range).
   A score is an exact number and the arithmetic on scores is exact: a
   quotient is kept as the fraction num / den with den > 0. *)

Rat(x) == [num |-> x, den |-> 1]

RatEq(a, b) == a.num * b.den = b.num * a.den

RatLeq(a, b) == a.num * b.den <= b.num * a.den

(* sort.Float64s: the scores in ascending order *)
RECURSIVE InsertSorted(_, _)
InsertSorted(x, s) ==
    IF s = <<>> THEN <<x>>
    ELSE IF x <= Head(s) THEN <<x>> \o s
         ELSE <<Head(s)>> \o InsertSorted(x, Tail(s))

RECURSIVE Float64s(_)
Float64s(s) ==
    IF s = <<>> THEN <<>> ELSE InsertSorted(Head(s), Float64s(Tail(s)))

RECURSIVE SumScores(_)
SumScores(s) == IF s = <<>> THEN 0 ELSE Head(s) + SumScores(Tail(s))

(* The scores of a result list, in result order *)
ScoresOf(results) == [i \in 1..Len(results) |-> results[i].Score]

(* sum / float64(n) *)
MeanOf(scores) == [num |-> SumScores(scores), den |-> Len(scores)]

(* A median that takes the upper middle score of an even-sized list *)
MedianUpperMiddle(scores) ==
    LET n == Len(scores)
    IN  Rat(scores[(n \div 2) + 1])

(* The median of the sorted scores: (scores[n/2-1] + scores[n/2]) / 2 when n
   is even, scores[n/2] when it is odd (indices from 0) *)
MedianOf(scores) ==
    LET n == Len(scores)
    IN  IF n % 2 = 0
        THEN [num |-> scores[n \div 2] + scores[(n \div 2) + 1], den |-> 2]
        ELSE Rat(scores[(n \div 2) + 1])

(* sumSquareDiff / float64(n), the square of StdDev: each diff is
   (n * score - sum) / n *)
RECURSIVE SumSquareDiff(_, _, _)
SumSquareDiff(s, sum, n) ==
    IF s = <<>> THEN 0
    ELSE (n * Head(s) - sum) * (n * Head(s) - sum) + SumSquareDiff(Tail(s), sum, n)

StdDevSqOf(scores) ==
    LET n == Len(scores)
    IN  [num |-> SumSquareDiff(scores, SumScores(scores), n), den |-> n * n * n]

(* percentiles := []int{25, 50, 75, 90, 95, 99} *)
PercentilePoints == {25, 50, 75, 90, 95, 99}

(* A percentile that takes the score at the floor of the index *)
PercentileFloor(scores, p) ==
    LET n == Len(scores)
        lower == (p * (n - 1)) \div 100
    IN  Rat(scores[lower + 1])

(* One turn of the percentile loop: index = p / 100 * (n - 1), lower its
   floor and upper its ceiling; the score at the index when it is whole, else
   scores[lower] * (1 - weight) + scores[upper] * weight with weight the
   fractional part of the index (here in hundredths) *)
PercentileOf(scores, p) ==
    LET n == Len(scores)
        lower == (p * (n - 1)) \div 100
        weight == (p * (n - 1)) % 100
        upper == IF weight = 0 THEN lower ELSE lower + 1
    IN  IF lower = upper THEN Rat(scores[lower + 1])
        ELSE [num |-> scores[lower + 1] * (100 - weight) + scores[upper + 1] * weight,
              den |-> 100]

(* A score is a whole number of thousandths.  v / 1000 is a binary fraction,
   which a float64 holds as it is, when v is a multiple of 125 *)
IsBinaryFraction(v) == v % 125 = 0

RECURSIVE GCD(_, _)
GCD(a, b) == IF b = 0 THEN a ELSE GCD(b, a % b)

RECURSIVE IsPowerOfTwo(_)
IsPowerOfTwo(n) == n = 1 \/ (n > 1 /\ n % 2 = 0 /\ IsPowerOfTwo(n \div 2))

(* float64 computes bucketWidth = (max - min) / float64(numBuckets) and
   (score - min) / bucketWidth without rounding: the three scores are binary
   fractions and so is the width *)
ExactQuotient(score, min, max, numBuckets) ==
    /\ IsBinaryFraction(score) /\ IsBinaryFraction(min) /\ IsBinaryFraction(max)
    /\ IsPowerOfTwo(numBuckets \div GCD(numBuckets, (max - min) \div 125))

(* The scores whose quotient (score - min) / bucketWidth float64 may round
   to just below the whole number it is: those on the border of two buckets
   when the division rounds.  The quotient of min is 0 as it is, and that of
   max is clamped wherever it is rounded to. *)
MayRoundBelow(scores, numBuckets) ==
    IF Len(scores) = 0 \/ numBuckets < 1 THEN {}
    ELSE LET min == scores[1]
             max == scores[Len(scores)]
         IN  {s \in Range(scores) :
                 /\ min < s /\ s < max
                 /\ ((s - min) * numBuckets) % (max - min) = 0
                 /\ ~ExactQuotient(s, min, max, numBuckets)}

(* int((score - min) / bucketWidth) without the clamp to the last bucket *)
BucketIndexUnclamped(score, min, max, numBuckets, below) ==
    LET quotient == ((score - min) * numBuckets) \div (max - min)
    IN  IF score \in below THEN quotient - 1 ELSE quotient

(* int((score - min) / bucketWidth) with bucketWidth = (max - min) /
   numBuckets, set to numBuckets - 1 when it reaches numBuckets.  below
   holds the scores whose quotient float64 rounds to just below the whole
   number it is, which the conversion to int then cuts to the number before *)
BucketIndex(score, min, max, numBuckets, below) ==
    LET quotient == ((score - min) * numBuckets) \div (max - min)
        bucketIndex == IF score \in below THEN quotient - 1 ELSE quotient
    IN  IF bucketIndex >= numBuckets THEN numBuckets - 1 ELSE bucketIndex

(* The histogram of sorted scores: nothing for no score, one bucket when all
   scores are equal, else numBuckets buckets of width (max - min) /
   numBuckets from min, bucket i (from 0) counting the scores of index i *)
Histogram(scores, numBuckets, below) ==
    IF Len(scores) = 0 THEN <<>>
    ELSE LET min == scores[1]
             max == scores[Len(scores)]
         IN  IF min = max
             THEN <<[Min |-> Rat(min), Max |-> Rat(max), Count |-> Len(scores)]>>
             ELSE [i \in 1..numBuckets |->
                      [Min |-> [num |-> min * numBuckets + (i - 1) * (max - min),
                                den |-> numBuckets],
                       Max |-> [num |-> min * numBuckets + i * (max - min),
                                den |-> numBuckets],
                       Count |-> Cardinality({k \in 1..Len(scores) :
                                    BucketIndex(scores[k], min, max, numBuckets, below) = i - 1})]]

(* SearchHandler.createScoreBuckets, given sorted scores *)
createScoreBuckets(scores, numBuckets, below) == Histogram(scores, numBuckets, below)

(* The zero value of models.ScoreDistribution with its empty Percentiles map *)
NoDistribution ==
    [Mean |-> Rat(0), Median |-> Rat(0), StdDevSq |-> Rat(0),
     Percentiles |-> <<>>, Buckets |-> <<>>]

(* SearchHandler.calculateScoreDistribution: sorts the scores, then mean,
   median, deviation, percentiles and the ten-bucket histogram *)
calculateScoreDistribution(given, below) ==
    LET scores == Float64s(given)
    IN  IF Len(scores) = 0 THEN NoDistribution
        ELSE [Mean |-> MeanOf(scores),
              Median |-> MedianOf(scores),
              StdDevSq |-> StdDevSqOf(scores),
              Percentiles |-> [p \in PercentilePoints |-> PercentileOf(scores, p)],
              Buckets |-> createScoreBuckets(scores, HistogramBuckets, below)]

(* CategoryBreakdown: the number of results of each category *)
CategoryBreakdown(results) ==
    [c \in {results[i].Category : i \in 1..Len(results)} |->
        Cardinality({i \in 1..Len(results) : results[i].Category = c})]

(* The zero value of models.ScoreRange *)
NoScoreRange ==
    [Best |-> 0, Worst |-> 0, Mean |-> Rat(0), Median |-> Rat(0), StdDevSq |-> Rat(0)]

(* GetSearchStats without its early return: scores[0] of no score is an index
   out of range *)
GetSearchStatsUnguarded(results, query, below) ==
    LET scores == Float64s(ScoresOf(results))
        distrib == calculateScoreDistribution(ScoresOf(results), below)
    IN  [Query |-> query, TotalResults |-> Len(results),
         ScoreRange |-> IF Len(scores) = 0 THEN NoScoreRange
                        ELSE [Best |-> scores[1], Worst |-> scores[Len(scores)],
                              Mean |-> distrib.Mean, Median |-> distrib.Median,
                              StdDevSq |-> distrib.StdDevSq],
         ScoreDistrib |-> distrib,
         CategoryBreakdown |-> CategoryBreakdown(results),
         err |-> IF Len(scores) = 0 THEN "panic" ELSE "nil"]

(* SearchHandler.GetSearchStats: for no result the statistics hold the query
   and nothing else; else the breakdown, the distribution of the scores and
   the range read from the scores calculateScoreDistribution has sorted in
   place.  The error is always nil. *)
GetSearchStats(results, query, below) ==
    IF Len(results) = 0
    THEN [Query |-> query, TotalResults |-> 0, ScoreRange |-> NoScoreRange,
          ScoreDistrib |-> NoDistribution, CategoryBreakdown |-> <<>>,
          err |-> "nil"]
    ELSE LET scores == Float64s(ScoresOf(results))
             distrib == calculateScoreDistribution(ScoresOf(results), below)
         IN  [Query |-> query, TotalResults |-> Len(results),
              ScoreRange |-> [Best |-> scores[1], Worst |-> scores[Len(scores)],
                              Mean |-> distrib.Mean, Median |-> distrib.Median,
                              StdDevSq |-> distrib.StdDevSq],
              ScoreDistrib |-> distrib,
              CategoryBreakdown |-> CategoryBreakdown(results), err |-> "nil"]

(* VisualizeHandler.generateScoreDistribution: the histogram of the result
   scores with the caller's number of buckets *)
generateScoreDistribution(results, numBuckets, below) ==
    Histogram(Float64s(ScoresOf(results)), numBuckets, below)

(* The run-time panic that ends generateScoreDistribution, "none" when it
   returns: for scores that differ, make([]models.ScoreBucket, numBuckets)
   with a negative length, and buckets[bucketIndex] with an index outside
   0..numBuckets-1.  With no bucket the width is +Inf, every quotient is 0,
   and the clamp sets the index to -1. *)
generateScoreDistributionPanic(results, numBuckets, below) ==
    LET scores == Float64s(ScoresOf(results))
        min == scores[1]
        max == scores[Len(scores)]
    IN  IF Len(scores) = 0 THEN "none"
        ELSE IF min = max THEN "none"
        ELSE IF numBuckets < 0 THEN "makeslice: len out of range"
        ELSE IF \E k \in 1..Len(scores) :
                    BucketIndex(scores[k], min, max, numBuckets, below)
                        \notin 0..(numBuckets - 1)
        THEN "index out of range"
        ELSE "none"

(* VisualizeHandler.generateRangeAnalysis, called with at least one result *)
generateRangeAnalysis(results) ==
    LET scores == Float64s(ScoresOf(results))
        percentiles == [p \in PercentilePoints |-> PercentileOf(scores, p)]
    IN  [Scores |-> scores, Min |-> scores[1], Max |-> scores[Len(scores)],
         Mean |-> MeanOf(scores), Median |-> MedianOf(scores),
         StdDevSq |-> StdDevSqOf(scores), Percentiles |-> percentiles,
         Quartiles |-> <<percentiles[25], percentiles[50], percentiles[75]>>]

----------------------------------------------------------------------------
(* Phase 2 command handlers.  Each command is one run of the program: it
   builds its SearchOptions from the flags, calls Search once and reports
   what it returned (resp); the run then ends (Exit) before the next starts.
   Each statement of a run is executed on its own, outside any transaction. *)

Respond(cmd, args, options, out, explanations, categoryMap) ==
    /\ resp' = [cmd |-> cmd, pc |-> "done", modified |-> FALSE,
                args |-> args, err |-> out.err, results |-> out.results,
                options |-> options, explanations |-> explanations,
                categoryMap |-> categoryMap, analysis |-> <<>>]
    /\ UNCHANGED <<documents, rank>>

(* The same for a command that reports statistics of the scores *)
RespondAnalysis(cmd, args, options, out, analysis) ==
    /\ resp' = [cmd |-> cmd, pc |-> "done", modified |-> FALSE,
                args |-> args, err |-> out.err, results |-> out.results,
                options |-> options, explanations |-> <<>>, categoryMap |-> <<>>,
                analysis |-> analysis]
    /\ UNCHANGED <<documents, rank>>

(* SearchHandler.HandleQuery: --max-results when positive, else the
   configured default *)
HandleQuery(query, maxResults, category) ==
    LET options == [DefaultSearchOptions EXCEPT
                       !.Query = query,
                       !.MaxResults = IF maxResults > 0 THEN maxResults
                                      ELSE ConfigMaxResults,
                       !.CategoryFilter = category]
    IN  \E out \in Search(options) : Respond("query", [NoArgs EXCEPT !.maxResults = maxResults], options, out,
                    <<>>, <<>>)

(* SearchHandler.HandleStats: MaxResults fixed at 1000; the statistics of
   the results are displayed *)
HandleStats(query, category) ==
    LET options == [DefaultSearchOptions EXCEPT
                       !.Query = query,
                       !.MaxResults = StatsMaxResults,
                       !.CategoryFilter = category]
    IN  \E out \in Search(options) :
            \E below \in SUBSET MayRoundBelow(Float64s(ScoresOf(out.results)),
                                              HistogramBuckets) :
                RespondAnalysis("stats", NoArgs, options, out,
                                IF out.err = "nil"
                                THEN GetSearchStats(out.results, query, below)
                                ELSE <<>>)

(* SearchHandler.HandleCompare without --compare-weights: the baseline
   search, MaxResults taken from the flag as given *)
HandleCompare(query, maxResults) ==
    LET options == [DefaultSearchOptions EXCEPT
                       !.Query = query, !.MaxResults = maxResults]
    IN  \E out \in Search(options) :
            Respond("compare", [NoArgs EXCEPT !.maxResults = maxResults], options, out,
                    <<>>, <<>>)

(* SearchHandler.HandleExplain up to the return of Search: the error of
   Search is returned, and without results there is nothing to explain and
   the command returns nil; else it goes on to GenerateScoreExplanations *)
HandleExplain(query, category, maxResults) ==
    LET options == [DefaultSearchOptions EXCEPT
                       !.Query = query, !.MaxResults = maxResults,
                       !.CategoryFilter = category, !.ExplainScores = TRUE]
    IN  \E out \in Search(options) :
            /\ resp' = [NoResp EXCEPT
                           !.cmd = "explain",
                           !.pc = IF out.err = "nil" /\ Len(out.results) > 0
                                  THEN "searched" ELSE "done",
                           !.args = [NoArgs EXCEPT !.maxResults = maxResults],
                           !.err = out.err, !.results = out.results,
                           !.options = options]
            /\ UNCHANGED <<documents, rank>>

(* SearchHandler.HandleExplain from GenerateScoreExplanations on: its error
   is returned, else the explanations are displayed.  The average length is
   read from the table as it is now. *)
ExplainResults ==
    LET out == GenerateScoreExplanations(resp.results, resp.options)
    IN  /\ resp.cmd = "explain"
        /\ resp.pc = "searched"
        /\ resp' = [resp EXCEPT !.pc = "done", !.err = out.err,
                                !.explanations = out.explanations]
        /\ UNCHANGED <<documents, rank>>

(* VisualizeHandler.HandleCategories: search without category filter, then
   the category comparison of the results under --filter *)
HandleCategories(query, filter, maxResults) ==
    LET options == [DefaultSearchOptions EXCEPT
                       !.Query = query, !.MaxResults = maxResults]
    IN  \E out \in Search(options) :
            Respond("categories",
                    [maxResults |-> maxResults, filter |-> ParseFilter(filter),
                     buckets |-> 0],
                    options, out, <<>>,
                    IF out.err = "nil" /\ Len(out.results) > 0
                    THEN generateCategoryComparison(out.results, ParseFilter(filter))
                    ELSE <<>>)

(* VisualizeHandler.HandleDistribution: search, then the histogram of the
   results with --buckets buckets; nothing to draw when nothing was found.
   A panic of generateScoreDistribution ends the command. *)
HandleDistribution(query, category, buckets, maxResults) ==
    LET options == [DefaultSearchOptions EXCEPT
                       !.Query = query, !.MaxResults = maxResults,
                       !.CategoryFilter = category]
    IN  \E out \in Search(options) :
            \E below \in SUBSET MayRoundBelow(Float64s(ScoresOf(out.results)), buckets) :
                IF /\ out.err = "nil" /\ Len(out.results) > 0
                   /\ generateScoreDistributionPanic(out.results, buckets, below) # "none"
                THEN RespondAnalysis("distribution",
                                     [NoArgs EXCEPT !.maxResults = maxResults,
                                                    !.buckets = buckets],
                                     options, [out EXCEPT !.err = "panic"], <<>>)
                ELSE RespondAnalysis("distribution",
                                     [NoArgs EXCEPT !.maxResults = maxResults,
                                                    !.buckets = buckets],
                                     options, out,
                                     IF out.err = "nil" /\ Len(out.results) > 0
                                     THEN generateScoreDistribution(out.results, buckets,
                                                                    below)
                                     ELSE <<>>)

(* HandleRange without its check for no results: generateRangeAnalysis reads
   scores[0] of no score, an index out of range *)
HandleRangeUnguarded(query, category, maxResults) ==
    LET options == [DefaultSearchOptions EXCEPT
                       !.Query = query, !.MaxResults = maxResults,
                       !.CategoryFilter = category]
    IN  \E out \in Search(options) :
            RespondAnalysis("range", [NoArgs EXCEPT !.maxResults = maxResults],
                            options,
                            IF out.err = "nil" /\ Len(out.results) = 0
                            THEN [out EXCEPT !.err = "panic"] ELSE out,
                            IF out.err = "nil" /\ Len(out.results) > 0
                            THEN generateRangeAnalysis(out.results)
                            ELSE <<>>)

(* VisualizeHandler.HandleRange: search, then the range analysis of the
   results; nothing to draw when nothing was found *)
HandleRange(query, category, maxResults) ==
    LET options == [DefaultSearchOptions EXCEPT
                       !.Query = query, !.MaxResults = maxResults,
                       !.CategoryFilter = category]
    IN  \E out \in Search(options) :
            RespondAnalysis("range", [NoArgs EXCEPT !.maxResults = maxResults],
                            options, out,
                            IF out.err = "nil" /\ Len(out.results) > 0
                            THEN generateRangeAnalysis(out.results)
                            ELSE <<>>)

----------------------------------------------------------------------------
(* Corpus generation (corpusGenerator and the documents of
   CorpusHandler.GenerateCorpus).  A generated string is the sequence of its
   words and of the spaces between them, a word being one element.  Times
   are minutes. *)

(* strings.Join(elems, sep) *)
RECURSIVE Join(_, _)
Join(elems, sep) ==
    IF elems = <<>> THEN <<>>
    ELSE IF Len(elems) = 1 THEN elems[1]
    ELSE elems[1] \o sep \o Join(Tail(elems), sep)

(* The string of the given words, one space between two *)
Text(words) == Join([i \in 1..Len(words) |-> <<words[i]>>], <<" ">>)

(* fmt.Sprintf(template, term): the term takes the place of the verb *)
RECURSIVE Sprintf(_, _)
Sprintf(template, term) ==
    IF template = <<>> THEN <<>>
    ELSE IF Head(template) = "%s" THEN term \o Tail(template)
    ELSE <<Head(template)>> \o Sprintf(Tail(template), term)

(* rand.New(rand.NewSource(seed)): the values a source yields are a function
   of its seed alone.  source[seed] is the sequence of the upper 31 bits of
   these 63-bit values, which is what Int31 returns, taken up again from its
   start when it is exhausted; a generator is this sequence and the number
   of values drawn so far. *)
NewSource(source, seed) == [stream |-> source[seed], drawn |-> 0]

Int31(rng) == rng.stream[(rng.drawn % Len(rng.stream)) + 1]

Drawn(rng) == [rng EXCEPT !.drawn = @ + 1]

MaxInt31 == 2147483647

(* Int31n: the largest value that is not drawn again,
   (1 << 31) - 1 - (1 << 31) % n; it is MaxInt31 for a power of two, where
   the value is masked and none is drawn again *)
Int31nMax(n) == MaxInt31 - (((MaxInt31 % n) + 1) % n)

(* rng.Intn(n) for n <= MaxInt31, and the generator after it: values above
   Int31nMax(n) are drawn again *)
RECURSIVE Intn(_, _)
Intn(rng, n) ==
    IF Int31(rng) > Int31nMax(n) THEN Intn(Drawn(rng), n)
    ELSE [value |-> Int31(rng) % n, rng |-> Drawn(rng)]

(* 0.3 * (1 << 31), rounded down *)
Float64Threshold == 644245094

(* rng.Float64() < 0.3, and the generator after it: the 63-bit value divided
   by 1 << 63 is below 0.3 when its upper 31 bits are below
   Float64Threshold and is not when they are above; at Float64Threshold the
   lower bits decide, and at MaxInt31 the quotient may round to 1 and be
   drawn again: Int31Values holds neither value *)
Float64Below3Tenths(rng) ==
    [below |-> Int31(rng) < Float64Threshold, rng |-> Drawn(rng)]

TitleTemplates(category) ==
    CASE category = <<"science">> ->
            <<Text(<<"Research", "in", "%s", "Methods">>), Text(<<"Scientific", "Analysis", "of", "%s">>),
              Text(<<"Experimental", "%s", "Studies">>), Text(<<"Theoretical", "%s", "Frameworks">>),
              Text(<<"Applications", "of", "%s", "Theory">>)>>
      [] category = <<"programming">> ->
            <<Text(<<"Mastering", "%s", "Algorithms">>), Text(<<"Efficient", "%s", "Implementation">>),
              Text(<<"Advanced", "%s", "Patterns">>), Text(<<"Learning", "%s", "Programming">>),
              Text(<<"%s", "Code", "Optimization">>)>>
      [] category = <<"database">> ->
            <<Text(<<"Optimizing", "%s", "Queries">>), Text(<<"Advanced", "%s", "Indexing">>),
              Text(<<"%s", "Transaction", "Management">>), Text(<<"Scaling", "%s", "Systems">>),
              Text(<<"%s", "Performance", "Tuning">>)>>
      [] category = <<"algorithms">> ->
            <<Text(<<"Efficient", "%s", "Algorithms">>), Text(<<"Complex", "%s", "Analysis">>),
              Text(<<"Optimized", "%s", "Solutions">>), Text(<<"Advanced", "%s", "Techniques">>),
              Text(<<"Comparative", "%s", "Study">>)>>
      [] OTHER ->
            <<Text(<<"Advanced", "%s", "Development", "Techniques">>), Text(<<"Understanding", "%s", "Architecture">>),
              Text(<<"Modern", "%s", "Best", "Practices">>), Text(<<"Introduction", "to", "%s", "Programming">>),
              Text(<<"%s", "Performance", "Optimization">>)>>

TitleTerms(category) ==
    CASE category = <<"science">> ->
            <<Text(<<"Data">>), Text(<<"Machine", "Learning">>), Text(<<"Statistics">>), Text(<<"Analytics">>), Text(<<"Research">>)>>
      [] category = <<"programming">> ->
            <<Text(<<"Object-Oriented">>), Text(<<"Functional">>), Text(<<"Concurrent">>), Text(<<"Distributed">>), Text(<<"Reactive">>)>>
      [] category = <<"database">> ->
            <<Text(<<"SQL">>), Text(<<"NoSQL">>), Text(<<"Relational">>), Text(<<"Graph">>), Text(<<"Time-Series">>)>>
      [] category = <<"algorithms">> ->
            <<Text(<<"Sorting">>), Text(<<"Search">>), Text(<<"Graph">>), Text(<<"Dynamic", "Programming">>), Text(<<"Greedy">>)>>
      [] OTHER -> <<Text(<<"Cloud">>), Text(<<"Mobile">>), Text(<<"Web">>), Text(<<"AI">>), Text(<<"Blockchain">>), Text(<<"IoT">>)>>

Vocabulary(category) ==
    CASE category = <<"science">> ->
            <<"research", "analysis", "methodology", "hypothesis", "experiment",
              "data", "results", "conclusion", "theory", "evidence", "statistical",
              "empirical", "quantitative", "qualitative", "validation">>
      [] category = <<"programming">> ->
            <<"function", "variable", "algorithm", "optimization", "performance",
              "debugging", "testing", "refactoring", "maintainable", "readable",
              "efficient", "scalable", "object", "method", "interface">>
      [] category = <<"database">> ->
            <<"query", "index", "transaction", "optimization", "performance",
              "schema", "normalization", "relational", "primary", "foreign", "key",
              "table", "column", "constraint", "integrity">>
      [] category = <<"algorithms">> ->
            <<"complexity", "efficiency", "optimization", "iteration", "recursion",
              "sorting", "searching", "traversal", "comparison", "analysis", "space",
              "time", "linear", "logarithmic", "polynomial">>
      [] OTHER ->
            <<"system", "development", "architecture", "framework", "platform",
              "solution", "design", "implementation", "scalable", "efficient",
              "robust", "secure", "modern", "advanced", "innovative">>

Connectors ==
    <<"and", "the", "of", "in", "to", "for", "with", "by", "from", "on", "at",
      "as", "is", "are", "can", "will", "this", "that", "these", "those">>

(* corpusGenerator.generateTitle: a template and a term of the category, the
   technology ones for a category without its own *)
generateTitle(rng, category) ==
    LET templates == TitleTemplates(category)
        terms == TitleTerms(category)
        template == Intn(rng, Len(templates))
        term == Intn(template.rng, Len(terms))
    IN  [title |-> Sprintf(templates[template.value + 1], terms[term.value + 1]),
         rng |-> term.rng]

(* The word loop of generateContent: a category word with chance 0.3, else a
   connector, until the content has targetTokens words *)
RECURSIVE ContentWords(_, _, _, _)
ContentWords(rng, category, words, targetTokens) ==
    IF Len(words) >= targetTokens THEN [content |-> Text(words), rng |-> rng]
    ELSE LET chance == Float64Below3Tenths(rng)
             list == IF chance.below THEN Vocabulary(category) ELSE Connectors
             word == Intn(chance.rng, Len(list))
         IN  ContentWords(word.rng, category, Append(words, list[word.value + 1]),
                          targetTokens)

(* corpusGenerator.generateContent *)
generateContent(rng, options, category) ==
    LET span == Intn(rng, options.MaxTokens - options.MinTokens + 1)
    IN  ContentWords(span.rng, category, <<>>, options.MinTokens + span.value)

(* 30 * 24 * 60: the minutes of thirty days *)
CreatedSpan == 43200

(* corpusGenerator.generateDocument: category, title, content, and a creation
   time up to thirty days before now, the value time.Now() has when the
   document is generated *)
generateDocument(rng, options, now) ==
    LET pick == Intn(rng, Len(options.Categories))
        category == options.Categories[pick.value + 1]
        t == generateTitle(pick.rng, category)
        c == generateContent(t.rng, options, category)
        createdOffset == Intn(c.rng, CreatedSpan)
    IN  [doc |-> [Title |-> t.title, Content |-> c.content, Category |-> category,
                  Created |-> now - createdOffset.value],
         rng |-> createdOffset.rng]

(* The loop of GenerateCorpus: times are the values of time.Now() the
   documents still to generate will read, in order *)
RECURSIVE GenerateDocuments(_, _, _, _)
GenerateDocuments(rng, options, times, docs) ==
    IF Len(docs) >= options.Size THEN docs
    ELSE LET g == generateDocument(rng, options, Head(times))
         IN  GenerateDocuments(g.rng, options, Tail(times), Append(docs, g.doc))

(* t.UnixNano(): the time as a count of nanoseconds, a value of its own kind
   here: it is only ever used as a seed *)
UnixNano(t) == [ns |-> t]

(* The seed GenerateCorpus hands to rand.NewSource: a zero seed is replaced
   by the clock, the first value of time.Now() the run reads *)
SeedOf(options, times) ==
    IF options.Seed = 0 THEN UnixNano(Head(times)) ELSE options.Seed

(* CorpusHandler.GenerateCorpus up to its last line: the documents it hands
   to BatchInsertDocuments.  times are the values of time.Now() the run
   reads, in order: one for a zero seed, then one for each document. *)
GeneratedDocuments(options, source, times) ==
    GenerateDocuments(NewSource(source, SeedOf(options, times)), options,
                      IF options.Seed = 0 THEN Tail(times) ELSE times, <<>>)

(* The values the sources yield, the sequences they are taken from, the
   values the clock may show and the readings one run makes of it *)
Int31Values == {5, 1298498081, 2019727887, 2147483646}

Streams ==
    {s \in UNION {[1..n -> Int31Values] : n \in 1..MaxPeriod} :
        \E i \in 1..Len(s) : s[i] <= MaxInt31 - CreatedSpan}

Clocks == {100000, 100007}

ClockReadings(options) ==
    {times \in [1..(options.Size + IF options.Seed = 0 THEN 1 ELSE 0) -> Clocks] :
        \A i \in 1..(Len(times) - 1) : times[i] <= times[i + 1]}

----------------------------------------------------------------------------
(* Transactions: CorpusHandler.HandleGenerate, HandleClear, ClearDocuments and
   BatchInsertDocuments of bm25-fundamentals, and BatchInsertDocuments of
   fts5-foundation.  A command runs one database call per step; a call to
   Begin, Exec or Commit may fail.  Rows written inside a transaction are in
   txn.rows and reach store, which is what every other connection reads,
   only when Commit succeeds. *)

(* The options corpus generate is run with, and the documents a phase-1
   caller may pass *)
GenOptions ==
    {[Size |-> size, Categories |-> << <<"database">>, <<"science">> >>,
      MinTokens |-> minTokens, MaxTokens |-> 2, Seed |-> seed] :
        size \in 0..MaxBatch, minTokens \in {1, 2}, seed \in {0, 1}}

(* cmd.Flags().GetBool("confirm") on the generate command: the flag is
   defined for the clear command only, so the lookup fails and HandleGenerate,
   which drops the error, reads false *)
GenerateConfirm == FALSE

(* The lines typed at a prompt: y, n, yes, "Y " and the empty line *)
Answers == {<<"y">>, <<"n">>, <<"y", "e", "s">>, <<"Y", " ">>, <<>>}

(* What a call of the database may return to a command that only reads *)
CountOutcomes == {"nil", "database"}

(* What Database.InitSchema may return: ErrFTS5 of VerifyFTS5Support,
   ErrTransaction of BeginTx or Commit, ErrDatabase of a CREATE *)
SchemaOutcomes == {"nil", "fts5", "transaction", "database"}

GenStreams == {<<5>>, <<1298498081, 5>>}

CallerDocs ==
    {[Title |-> <<"A">>, Content |-> <<"a", " ", "b">>, Category |-> <<"x">>],
     [Title |-> <<"b">>, Content |-> <<"a">>, Category |-> <<"y">>],
     [Title |-> <<" ">>, Content |-> <<"a">>, Category |-> <<"x">>]}

Batches(D) == UNION {[1..n -> D] : n \in 1..MaxBatch}

NoTxn == [state |-> "none", rows |-> <<>>]

NoRun ==
    [cmd |-> "none", pc |-> "idle", docs |-> <<>>, next |-> 0, before |-> <<>>,
     base |-> <<>>, batched |-> FALSE, err |-> "nil", confirm |-> FALSE,
     asked |-> FALSE, answer |-> <<>>, counted |-> FALSE]

NoSeen == [rows |-> <<>>, next |-> 0]

TxInit ==
    /\ prog \in {1, 2}
    /\ store = <<>>
    /\ txn = NoTxn
    /\ run = NoRun
    /\ seen = NoSeen

(* The row INSERT stores: bm25-fundamentals adds the token count of
   title + " " + content as length and stores the creation time,
   fts5-foundation stores the three fields *)
StoredRow(doc) ==
    IF prog = 2
    THEN [Title |-> doc.Title, Content |-> doc.Content, Category |-> doc.Category,
          Length |-> DocLength(doc.Title, doc.Content), Created |-> doc.Created]
    ELSE doc

StoredRows(docs) == [i \in 1..Len(docs) |-> StoredRow(docs[i])]

(* The command returns err *)
Return(err) == [run EXCEPT !.pc = "done", !.err = err]

(* tx.Rollback(): the rows written in the transaction are dropped *)
Rollback == [state |-> "rolledback", rows |-> <<>>]

(* An INSERT that is committed as soon as it has run *)
ExecInsertAutocommit(doc) ==
    /\ txn' = [txn EXCEPT !.rows = Append(@, StoredRow(doc))]
    /\ store' = Append(store, StoredRow(doc))

(* stmt.Exec inside the transaction: the row is written to the transaction *)
ExecInsert(doc) ==
    /\ txn' = [txn EXCEPT !.rows = Append(@, StoredRow(doc))]
    /\ UNCHANGED store

(* CorpusHandler.GenerateCorpus: generate the documents, then
   return h.BatchInsertDocuments(ctx, docs), which goes on step by step *)
GenerateCorpus(options, source, times) ==
    /\ prog = 2
    /\ run.cmd = "none"
    /\ Len(store) + options.Size <= MaxStored
    /\ run' = [NoRun EXCEPT !.cmd = "corpus", !.pc = "batch_begin", !.before = store,
                            !.docs = GeneratedDocuments(options, source, times)]
    /\ seen' = [rows |-> store, next |-> 0]
    /\ UNCHANGED <<prog, store, txn>>

(* fmt.Scanln(&response): the first space-separated word of the line typed,
   the empty string for a line without one *)
Scanln(line) == IF Fields(line) = <<>> THEN <<>> ELSE Fields(line)[1]

(* The prompt of HandleGenerate and HandleClear: the response is trimmed
   and lowered, and y and yes go on *)
Confirms(line) ==
    ToLower(TrimSpace(Scanln(line))) \in {<<"y">>, <<"y", "e", "s">>}

(* A generate that asks and, told yes, goes on to GenerateCorpus without
   clearing the corpus *)
HandleGenerateAppends(options, source, times, answer, confirmClear, schema, counted) ==
    /\ prog = 2
    /\ run.cmd = "none"
    /\ Len(store) + options.Size <= MaxStored
    /\ LET asked == Len(store) > 0 /\ ~confirmClear
           started == [NoRun EXCEPT !.cmd = "generate", !.before = store,
                                    !.confirm = confirmClear]
       IN  run' = IF options.Size < 1 \/ options.MinTokens >= options.MaxTokens
                  THEN [started EXCEPT !.pc = "done", !.err = "validation"]
                  ELSE IF schema # "nil"
                  THEN [started EXCEPT !.pc = "done", !.err = schema]
                  ELSE IF counted # "nil"
                  THEN [started EXCEPT !.pc = "done", !.err = counted]
                  ELSE IF asked /\ ~Confirms(answer)
                  THEN [started EXCEPT !.pc = "done", !.asked = TRUE,
                                       !.answer = answer]
                  ELSE [started EXCEPT
                           !.asked = asked,
                           !.answer = IF asked THEN answer ELSE <<>>,
                           !.docs = GeneratedDocuments(options, source, times),
                           !.pc = "batch_begin"]
    /\ seen' = [rows |-> store, next |-> 0]
    /\ UNCHANGED <<prog, store, txn>>

(* CorpusHandler.HandleGenerate up to its first transaction on the rows:
   options of fewer than one document, or with MinTokens >= MaxTokens, are a
   validation error before any database call; InitSchema, schema being what
   it returns, creates what is missing in a transaction of its own that
   touches no row and is ended when it returns (its Rollback is deferred
   without a condition); count the rows, counted being what
   GetDocumentCount returns; on a non-empty corpus, unless the confirm flag of the command is
   true, ask, then stop or clear; then GenerateCorpus.  The documents do not
   depend on the rows stored; the answer is recorded when it was asked for. *)
HandleGenerate(options, source, times, answer, confirmClear, schema, counted) ==
    /\ prog = 2
    /\ run.cmd = "none"
    /\ (Len(store) > 0 /\ confirmClear) => Len(store) + options.Size <= MaxStored
    /\ LET asked == Len(store) > 0 /\ ~confirmClear
           started == [NoRun EXCEPT !.cmd = "generate", !.before = store,
                                    !.confirm = confirmClear]
       IN  run' = IF options.Size < 1 \/ options.MinTokens >= options.MaxTokens
                  THEN [started EXCEPT !.pc = "done", !.err = "validation"]
                  ELSE IF schema # "nil"
                  THEN [started EXCEPT !.pc = "done", !.err = schema]
                  ELSE IF counted # "nil"
                  THEN [started EXCEPT !.pc = "done", !.err = counted]
                  ELSE IF asked /\ ~Confirms(answer)
                  THEN [started EXCEPT !.pc = "done", !.asked = TRUE,
                                       !.answer = answer]
                  ELSE [started EXCEPT
                           !.asked = asked,
                           !.answer = IF asked THEN answer ELSE <<>>,
                           !.docs = GeneratedDocuments(options, source, times),
                           !.pc = IF asked THEN "clear_begin" ELSE "batch_begin"]
    /\ seen' = [rows |-> store, next |-> 0]
    /\ UNCHANGED <<prog, store, txn>>

(* CorpusHandler.HandleClear: count the rows, counted being what
   GetDocumentCount returns; nothing to do on an empty corpus; without
   --confirm ask; then ClearDocuments *)
HandleClear(confirm, answer, counted) ==
    /\ prog = 2
    /\ run.cmd = "none"
    /\ LET started == [NoRun EXCEPT !.cmd = "clear", !.before = store,
                                    !.confirm = confirm]
       IN  run' = IF counted # "nil"
                  THEN [started EXCEPT !.pc = "done", !.err = counted]
                  ELSE IF Len(store) = 0
                  THEN [started EXCEPT !.pc = "done"]
                  ELSE IF ~confirm /\ ~Confirms(answer)
                  THEN [started EXCEPT !.pc = "done", !.asked = TRUE,
                                       !.answer = answer]
                  ELSE [started EXCEPT !.pc = "clear_begin",
                                       !.asked = ~confirm,
                                       !.answer = IF confirm THEN <<>> ELSE answer]
    /\ seen' = [rows |-> store, next |-> 0]
    /\ UNCHANGED <<prog, store, txn>>

(* ClearDocuments: database.Instance.Begin; a failure is ErrTransaction *)
ClearBegin(ok) ==
    /\ run.pc = "clear_begin"
    /\ IF ok
       THEN /\ txn' = [state |-> "open", rows |-> store]
            /\ run' = [run EXCEPT !.pc = "clear_exec"]
       ELSE /\ txn' = txn
            /\ run' = Return("transaction")
    /\ UNCHANGED <<prog, store, seen>>

(* ClearDocuments: DELETE FROM documents, then the FTS5 optimize; a failure
   is ErrDatabase or ErrFTS5 and the deferred Rollback runs *)
ClearExec(outcome) ==
    /\ run.pc = "clear_exec"
    /\ IF outcome = "ok"
       THEN /\ txn' = [txn EXCEPT !.rows = <<>>]
            /\ run' = [run EXCEPT !.pc = "clear_commit"]
       ELSE /\ txn' = Rollback
            /\ run' = Return(outcome)
    /\ UNCHANGED <<prog, store, seen>>

(* ClearDocuments: return tx.Commit(); a failure is the driver's error as it
   is.  After a successful clear HandleGenerate goes on to GenerateCorpus. *)
ClearCommit(ok) ==
    /\ run.pc = "clear_commit"
    /\ IF ok
       THEN /\ store' = txn.rows
            /\ txn' = [state |-> "committed", rows |-> <<>>]
            /\ run' = IF run.cmd = "generate"
                      THEN [run EXCEPT !.pc = "batch_begin"]
                      ELSE Return("nil")
       ELSE /\ store' = store
            /\ txn' = Rollback
            /\ run' = Return("driver")
    /\ UNCHANGED <<prog, seen>>

(* CorpusHandler.BatchInsertDocuments: nothing to do without documents;
   database.Instance.Begin and the prepare of the INSERT *)
BatchBegin(outcome) ==
    /\ run.pc = "batch_begin"
    /\ IF Len(run.docs) = 0
       THEN /\ txn' = txn
            /\ run' = IF run.cmd = "generate"
                      THEN [run EXCEPT !.pc = "final_count"]
                      ELSE Return("nil")
            /\ seen' = seen
       ELSE IF outcome = "ok"
       THEN /\ txn' = [state |-> "open", rows |-> store]
            /\ run' = [run EXCEPT !.pc = "batch_exec", !.next = 1, !.base = store,
                                  !.batched = TRUE]
            /\ seen' = [rows |-> store, next |-> 1]
       ELSE /\ txn' = IF outcome = "transaction" THEN txn ELSE Rollback
            /\ run' = Return(outcome)
            /\ seen' = seen
    /\ UNCHANGED <<prog, store>>

(* CorpusHandler.BatchInsertDocuments: one turn of the insert loop; a failure
   is ErrDatabase and the deferred Rollback runs *)
BatchExec(ok) ==
    /\ run.pc = "batch_exec"
    /\ IF ok
       THEN /\ ExecInsert(run.docs[run.next])
            /\ run' = [run EXCEPT !.next = @ + 1,
                                  !.pc = IF run.next = Len(run.docs)
                                         THEN "batch_commit" ELSE "batch_exec"]
       ELSE /\ txn' = Rollback
            /\ store' = store
            /\ run' = Return("database")
    /\ UNCHANGED <<prog, seen>>

(* CorpusHandler.BatchInsertDocuments: return tx.Commit() *)
BatchCommit(ok) ==
    /\ run.pc = "batch_commit"
    /\ IF ok
       THEN /\ store' = txn.rows
            /\ txn' = [state |-> "committed", rows |-> <<>>]
            /\ run' = IF run.cmd = "generate"
                      THEN [run EXCEPT !.pc = "final_count"]
                      ELSE Return("nil")
       ELSE /\ store' = store
            /\ txn' = Rollback
            /\ run' = Return("driver")
    /\ UNCHANGED <<prog, seen>>

(* HandleGenerate after GenerateCorpus has returned nil: the rows are
   counted for the report, counted being what GetDocumentCount returns *)
FinalCount(counted) ==
    /\ run.pc = "final_count"
    /\ run' = [Return(counted) EXCEPT !.counted = TRUE]
    /\ UNCHANGED <<prog, store, txn, seen>>

(* fts5-foundation BatchInsertDocuments up to its transaction: an empty batch
   or a document with a blank field is a validation error *)
IsBlank(s) == TrimSpace(s) = <<>>

BatchInsertDocuments(docs) ==
    /\ prog = 1
    /\ run.cmd = "none"
    /\ Len(store) + Len(docs) <= MaxStored
    /\ run' = IF \/ Len(docs) = 0
                 \/ \E i \in 1..Len(docs) :
                        \/ IsBlank(docs[i].Title)
                        \/ IsBlank(docs[i].Content)
                        \/ IsBlank(docs[i].Category)
              THEN [NoRun EXCEPT !.cmd = "batch", !.pc = "done", !.docs = docs,
                                 !.before = store, !.err = "validation"]
              ELSE [NoRun EXCEPT !.cmd = "batch", !.pc = "p1_begin", !.docs = docs,
                                 !.before = store]
    /\ seen' = [rows |-> store, next |-> 0]
    /\ UNCHANGED <<prog, store, txn>>

(* fts5-foundation BatchInsertDocuments: db.Begin (a failure is
   ErrTransaction) and tx.Prepare (a failure is ErrDatabase, and the deferred
   function rolls back) *)
P1Begin(outcome) ==
    /\ run.pc = "p1_begin"
    /\ IF outcome = "ok"
       THEN /\ txn' = [state |-> "open", rows |-> store]
            /\ run' = [run EXCEPT !.pc = "p1_exec", !.next = 1, !.base = store,
                                  !.batched = TRUE]
            /\ seen' = [rows |-> store, next |-> 1]
       ELSE /\ txn' = IF outcome = "transaction" THEN txn ELSE Rollback
            /\ run' = Return(outcome)
            /\ seen' = seen
    /\ UNCHANGED <<prog, store>>

(* fts5-foundation BatchInsertDocuments: one turn of the insert loop.  The
   loop's err is a new variable, so on a failure the deferred function sees
   the outer err still nil and does not roll back: the transaction stays
   open until the connection goes away. *)
P1Exec(ok) ==
    /\ run.pc = "p1_exec"
    /\ IF ok
       THEN /\ ExecInsert(run.docs[run.next])
            /\ run' = [run EXCEPT !.next = @ + 1,
                                  !.pc = IF run.next = Len(run.docs)
                                         THEN "p1_commit" ELSE "p1_exec"]
       ELSE /\ txn' = txn
            /\ store' = store
            /\ run' = Return("database")
    /\ UNCHANGED <<prog, seen>>

(* fts5-foundation BatchInsertDocuments: tx.Commit; a failure is
   ErrTransaction and nothing of the transaction is stored: a Commit that
   fails ends the transaction all the same, the driver rolls it back *)
P1Commit(ok) ==
    /\ run.pc = "p1_commit"
    /\ IF ok
       THEN /\ store' = txn.rows
            /\ txn' = [state |-> "committed", rows |-> <<>>]
            /\ run' = Return("nil")
       ELSE /\ store' = store
            /\ txn' = Rollback
            /\ run' = Return("transaction")
    /\ UNCHANGED <<prog, seen>>

(* Another connection reads the table while the command runs: it gets the
   committed rows.  next records how far the insert loop was. *)
Read ==
    /\ run.cmd # "none"
    /\ run.pc # "done"
    /\ seen' = [rows |-> store, next |-> run.next]
    /\ UNCHANGED <<prog, store, txn, run>>

(* The command has returned and the process ends; its connection closes and
   a transaction still open is discarded *)
TxExit ==
    /\ run.pc = "done"
    /\ run' = NoRun
    /\ txn' = NoTxn
    /\ seen' = NoSeen
    /\ UNCHANGED <<prog, store>>

Generate ==
    /\ \E options \in GenOptions, stream \in GenStreams, answer \in Answers,
          schema \in SchemaOutcomes, counted \in CountOutcomes :
           \E times \in ClockReadings(options) :
               HandleGenerate(options, [seed \in {SeedOf(options, times)} |-> stream],
                              times, answer, GenerateConfirm, schema, counted)
    /\ UNCHANGED <<searchVars, docVars, calcVars>>

Clear ==
    /\ \E confirm \in BOOLEAN, answer \in Answers, counted \in CountOutcomes :
           HandleClear(confirm, answer, counted)
    /\ UNCHANGED <<searchVars, docVars, calcVars>>

ClearBeginStep == (\E ok \in BOOLEAN : ClearBegin(ok)) /\ UNCHANGED <<searchVars, docVars, calcVars>>

ClearExecStep ==
    (\E outcome \in {"ok", "database", "fts5"} : ClearExec(outcome))
    /\ UNCHANGED <<searchVars, docVars, calcVars>>

ClearCommitStep == (\E ok \in BOOLEAN : ClearCommit(ok)) /\ UNCHANGED <<searchVars, docVars, calcVars>>

BatchBeginStep ==
    (\E outcome \in {"ok", "transaction", "database"} : BatchBegin(outcome))
    /\ UNCHANGED <<searchVars, docVars, calcVars>>

BatchExecStep == (\E ok \in BOOLEAN : BatchExec(ok)) /\ UNCHANGED <<searchVars, docVars, calcVars>>

BatchCommitStep == (\E ok \in BOOLEAN : BatchCommit(ok)) /\ UNCHANGED <<searchVars, docVars, calcVars>>

FinalCountStep ==
    (\E counted \in CountOutcomes : FinalCount(counted))
    /\ UNCHANGED <<searchVars, docVars, calcVars>>

BatchInsert ==
    /\ \E docs \in Batches(CallerDocs) : BatchInsertDocuments(docs)
    /\ UNCHANGED <<searchVars, docVars, calcVars>>

P1BeginStep ==
    (\E outcome \in {"ok", "transaction", "database"} : P1Begin(outcome))
    /\ UNCHANGED <<searchVars, docVars, calcVars>>

P1ExecStep == (\E ok \in BOOLEAN : P1Exec(ok)) /\ UNCHANGED <<searchVars, docVars, calcVars>>

P1CommitStep == (\E ok \in BOOLEAN : P1Commit(ok)) /\ UNCHANGED <<searchVars, docVars, calcVars>>

ReadStep == Read /\ UNCHANGED <<searchVars, docVars, calcVars>>

ExitStep == TxExit /\ UNCHANGED <<searchVars, docVars, calcVars>>

NextTx ==
    \/ Generate
    \/ FinalCountStep
    \/ Clear
    \/ ClearBeginStep
    \/ ClearExecStep
    \/ ClearCommitStep
    \/ BatchBeginStep
    \/ BatchExecStep
    \/ BatchCommitStep
    \/ BatchInsert
    \/ P1BeginStep
    \/ P1ExecStep
    \/ P1CommitStep
    \/ ReadStep
    \/ ExitStep

----------------------------------------------------------------------------
(* Phase 1 (fts5-foundation): InsertDocument, SearchDocuments, UpdateDocument
   and DeleteDocument on the FTS5 table documents.  table maps each rowid in
   use to its row, and rank[i][query] is the value bm25(documents) yields for
   row i in a search for query.  Every call opens its own connection and
   executes its statements one by one, outside any transaction. *)

InsTitles == {<<"A">>, <<" ">>}
InsContents == {<<"a", " ", "b">>}
InsCategories == {<<"x">>}
UpdTitles == {<<>>, <<" ">>, <<" ", "b", " ">>}
UpdContents == {<<>>, <<"c">>}
UpdCategories == {<<>>, <<"y">>}
RowIDs == 0..(MaxRows + 1)
DocQueries == {<<"a">>, <<"b">>, <<" ">>}
Limits == (0 - 1)..MaxLimit

(* A call: what it was given, pc "selected" between its SELECT and its write
   and "done" when it has returned, the row its SELECT read, the statements
   other connections have executed since, its error and its results *)
NoCall ==
    [op |-> "none", pc |-> "done", rowID |-> 0, title |-> <<>>, content |-> <<>>,
     category |-> <<>>, limit |-> 0, current |-> <<>>, others |-> 0,
     err |-> "nil", results |-> <<>>]

DocInit ==
    /\ table = <<>>
    /\ prior = <<>>
    /\ docResp = NoCall

(* The call returns: what it was given, its error and its results; prior is
   the table its last statement found *)
Returns(call, err, results) ==
    /\ docResp' = [call EXCEPT !.pc = "done", !.current = <<>>, !.others = 0,
                               !.err = err, !.results = results]
    /\ prior' = table

(* The queries SearchDocuments hands to the engine *)
DocExpressions == {query \in DocQueries : ~IsBlank(query)}

(* bm25(documents): a value for each row and each query the row matches,
   computed from the terms of the query and from the whole index, so the
   values of all rows are open again after every write *)
DocBm25(rows) ==
    LET matched == [i \in DOMAIN rows |->
                       {query \in DocExpressions : Matches(rows[i], query)}]
    IN  {r \in [DOMAIN rows ->
                   UNION {[matched[i] -> ScoreValues] : i \in DOMAIN rows}] :
            \A i \in DOMAIN rows : DOMAIN r[i] = matched[i]}

(* A statement that writes leaves these rows, a statement that only reads
   leaves the table as it is *)
Stores(rows) ==
    /\ table' = rows
    /\ rank' \in DocBm25(rows)

OnlyReads ==
    /\ table' = table
    /\ rank' = rank

(* The rowid an INSERT assigns: one more than the largest in use *)
RECURSIVE MaxOf(_)
MaxOf(S) ==
    IF S = {} THEN 0
    ELSE LET x == CHOOSE x \in S : TRUE
             m == MaxOf(S \ {x})
         IN  IF x > m THEN x ELSE m

NextRowID == MaxOf(DOMAIN table) + 1

(* fts5-foundation InsertDocument: a blank field is a validation error; the
   values are stored as given *)
DocInsertDocument(title, content, category) ==
    LET call == [NoCall EXCEPT !.op = "insert", !.title = title,
                               !.content = content, !.category = category]
    IN  IF IsBlank(title) \/ IsBlank(content) \/ IsBlank(category)
        THEN Returns(call, "validation", <<>>) /\ OnlyReads
        ELSE /\ NextRowID <= MaxRows
             /\ Stores([i \in DOMAIN table \cup {NextRowID} |->
                            IF i = NextRowID
                            THEN [Title |-> title, Content |-> content,
                                  Category |-> category]
                            ELSE table[i]])
             /\ Returns([call EXCEPT !.rowID = NextRowID], "nil", <<>>)

(* ORDER BY score, the only key of the sort of SearchDocuments: rows of
   equal score come in any order *)
RowBefore(query, i, j) == rank[i][query] <= rank[j][query]

(* ORDER BY score LIMIT k over the matching rowids M *)
RowsOrdered(query, M, k) ==
    {s \in [1..k -> M] :
        /\ \A i, j \in 1..k : i < j => s[i] # s[j] /\ RowBefore(query, s[i], s[j])
        /\ \A d \in M : (\A i \in 1..k : s[i] # d) =>
                            \A i \in 1..k : RowBefore(query, s[i], d)}

(* SearchDocuments: a blank query is a validation error; a limit <= 0
   becomes 10; WHERE documents MATCH ? ORDER BY score LIMIT ? *)
SearchDocuments(query, limit) ==
    LET call == [NoCall EXCEPT !.op = "search", !.title = query, !.limit = limit]
        lim == IF limit <= 0 THEN DefaultLimit ELSE limit
    IN  /\ OnlyReads
        /\ IF IsBlank(query)
           THEN Returns(call, "validation", <<>>)
           ELSE \E M \in {{i \in DOMAIN table : Matches(table[i], query)}} :
                \E s \in RowsOrdered(query, M, Min(lim, Cardinality(M))) :
                    Returns(call, "nil",
                            [i \in 1..Len(s) |->
                                [RowID |-> s[i], Title |-> table[s[i]].Title,
                                 Content |-> table[s[i]].Content,
                                 Category |-> table[s[i]].Category,
                                 Score |-> rank[s[i]][query]]])

(* The call has executed its SELECT and goes on to its write *)
Selected(call) ==
    /\ docResp' = [call EXCEPT !.pc = "selected", !.current = table[call.rowID]]
    /\ prior' = table

(* UpdateDocument: a field whose trimmed value is not empty is replaced by
   the trimmed value, any other field keeps the value the SELECT read *)
NewValue(given, current) ==
    IF TrimSpace(given) # <<>> THEN TrimSpace(given) ELSE current

(* UpdateDocument up to its SELECT: rowID <= 0 or three empty fields is a
   validation error; a rowid that SELECT does not find is ErrNotFound *)
UpdateDocument(rowID, title, content, category) ==
    LET call == [NoCall EXCEPT !.op = "update", !.rowID = rowID, !.title = title,
                               !.content = content, !.category = category]
    IN  /\ OnlyReads
        /\ IF rowID <= 0
           THEN Returns(call, "validation", <<>>)
           ELSE IF title = <<>> /\ content = <<>> /\ category = <<>>
           THEN Returns(call, "validation", <<>>)
           ELSE IF rowID \notin DOMAIN table
           THEN Returns(call, "notfound", <<>>)
           ELSE Selected(call)

(* UpdateDocument from its UPDATE on: the three columns of the row are set,
   each to the new value or to the value the SELECT read; no row affected is
   ErrNotFound *)
UpdateDocumentExec ==
    LET cur == docResp.current
        new == [Title |-> NewValue(docResp.title, cur.Title),
                Content |-> NewValue(docResp.content, cur.Content),
                Category |-> NewValue(docResp.category, cur.Category)]
        rowsAffected == Cardinality({i \in DOMAIN table : i = docResp.rowID})
    IN  /\ docResp.op = "update"
        /\ docResp.pc = "selected"
        /\ IF rowsAffected = 0
           THEN OnlyReads /\ Returns(docResp, "notfound", <<>>)
           ELSE /\ Stores([table EXCEPT ![docResp.rowID] = new])
                /\ Returns(docResp, "nil", <<>>)

(* A delete that does not look the row up and reports no missing row *)
DeleteDocumentUnchecked(rowID) ==
    LET call == [NoCall EXCEPT !.op = "delete", !.rowID = rowID]
    IN  IF rowID <= 0
        THEN Returns(call, "validation", <<>>) /\ OnlyReads
        ELSE /\ Stores([i \in DOMAIN table \ {rowID} |-> table[i]])
             /\ Returns(call, "nil", <<>>)

(* DeleteDocument up to its SELECT: rowID <= 0 is a validation error; a
   rowid that SELECT does not find is ErrNotFound *)
DeleteDocument(rowID) ==
    LET call == [NoCall EXCEPT !.op = "delete", !.rowID = rowID]
    IN  /\ OnlyReads
        /\ IF rowID <= 0
           THEN Returns(call, "validation", <<>>)
           ELSE IF rowID \notin DOMAIN table
           THEN Returns(call, "notfound", <<>>)
           ELSE Selected(call)

(* DeleteDocument from its DELETE on: no row affected is ErrNotFound *)
DeleteDocumentExec ==
    LET rowsAffected == Cardinality({i \in DOMAIN table : i = docResp.rowID})
    IN  /\ docResp.op = "delete"
        /\ docResp.pc = "selected"
        /\ IF rowsAffected = 0
           THEN OnlyReads /\ Returns(docResp, "notfound", <<>>)
           ELSE /\ Stores([i \in DOMAIN table \ {docResp.rowID} |-> table[i]])
                /\ Returns(docResp, "nil", <<>>)

DocIdle == docResp.op = "none"

(* The call that runs is between its SELECT and its write, and another
   connection may execute a statement *)
DocSelected ==
    /\ docResp.pc = "selected"
    /\ docResp.others < MaxOther

(* prior follows the table until the call executes its own write *)
OtherStatement ==
    /\ docResp' = [docResp EXCEPT !.others = @ + 1]
    /\ prior' = table'

DocInsert ==
    /\ DocIdle
    /\ \E t \in InsTitles, c \in InsContents, g \in InsCategories :
           DocInsertDocument(t, c, g)
    /\ UNCHANGED <<documents, resp, txVars, calcVars>>

DocSearch ==
    /\ DocIdle
    /\ \E q \in DocQueries, n \in Limits : SearchDocuments(q, n)
    /\ UNCHANGED <<documents, resp, txVars, calcVars>>

DocUpdate ==
    /\ DocIdle
    /\ \E id \in RowIDs, t \in UpdTitles, c \in UpdContents, g \in UpdCategories :
           UpdateDocument(id, t, c, g)
    /\ UNCHANGED <<documents, resp, txVars, calcVars>>

DocUpdateExec ==
    /\ UpdateDocumentExec
    /\ UNCHANGED <<documents, resp, txVars, calcVars>>

DocDelete ==
    /\ DocIdle
    /\ \E id \in RowIDs : DeleteDocument(id)
    /\ UNCHANGED <<documents, resp, txVars, calcVars>>

DocDeleteExec ==
    /\ DeleteDocumentExec
    /\ UNCHANGED <<documents, resp, txVars, calcVars>>

(* The UPDATE of an UpdateDocument call of another process: the three
   columns of one row are set *)
OtherUpdate ==
    /\ DocSelected
    /\ \E id \in DOMAIN table, t \in UpdTitles \ {<<" ">>}, c \in UpdContents,
          g \in UpdCategories :
           /\ ~(t = <<>> /\ c = <<>> /\ g = <<>>)
           /\ Stores([table EXCEPT ![id] =
                          [Title |-> NewValue(t, table[id].Title),
                           Content |-> NewValue(c, table[id].Content),
                           Category |-> NewValue(g, table[id].Category)]])
    /\ OtherStatement
    /\ UNCHANGED <<documents, resp, txVars, calcVars>>

(* The DELETE of a DeleteDocument call of another process *)
OtherDelete ==
    /\ DocSelected
    /\ \E id \in DOMAIN table :
           Stores([i \in DOMAIN table \ {id} |-> table[i]])
    /\ OtherStatement
    /\ UNCHANGED <<documents, resp, txVars, calcVars>>

(* The command has printed its result and the process ends *)
DocExit ==
    /\ ~DocIdle
    /\ docResp.pc = "done"
    /\ docResp' = NoCall
    /\ prior' = table
    /\ UNCHANGED <<table, searchVars, txVars, calcVars>>

NextDoc ==
    \/ DocInsert
    \/ DocSearch
    \/ DocUpdate
    \/ DocUpdateExec
    \/ DocDelete
    \/ DocDeleteExec
    \/ OtherUpdate
    \/ OtherDelete
    \/ DocExit

----------------------------------------------------------------------------
(* Specification of phase 2 searching: an empty table, documents inserted
   one at a time, and search commands in any order. *)

Idle == resp.cmd = "none"

(* search explain has searched and has not yet read the average length *)
Explaining == resp.cmd = "explain" /\ resp.pc = "searched"

(* A write of another connection, seen from the command that runs *)
Written ==
    resp' = IF Idle THEN resp ELSE [resp EXCEPT !.modified = TRUE]

(* No pure function is applied *)
NoCalc == [fn |-> "none"]

CalcInit == calc = NoCalc

SearchInit ==
    /\ documents = <<>>
    /\ rank = <<>>
    /\ resp = NoResp

(* The database of each program as it is created: no rows *)
Init == SearchInit /\ TxInit /\ prog = 2 /\ DocInit /\ CalcInit

InitTx == SearchInit /\ TxInit /\ DocInit /\ CalcInit

InitDoc == SearchInit /\ TxInit /\ prog = 1 /\ DocInit /\ CalcInit

(* corpus insert, by this program when no command runs or by another
   process between the statements of one *)
Insert ==
    /\ Idle \/ Explaining
    /\ UNCHANGED <<txVars, docVars, calcVars>>
    /\ \E t \in Titles, c \in Contents, g \in Categories :
           InsertDocument(t, c, g)
    /\ Written

(* corpus clear, likewise *)
ClearCorpus ==
    /\ Idle \/ Explaining
    /\ Len(documents) > 0
    /\ UNCHANGED <<txVars, docVars, calcVars>>
    /\ ClearDocuments
    /\ Written

Query ==
    /\ Idle
    /\ UNCHANGED <<txVars, docVars, calcVars>>
    /\ \E q \in Queries, n \in MaxFlags, g \in CategoryFlags : HandleQuery(q, n, g)

Stats ==
    /\ Idle
    /\ UNCHANGED <<txVars, docVars, calcVars>>
    /\ \E q \in Queries, g \in CategoryFlags : HandleStats(q, g)

Compare ==
    /\ Idle
    /\ UNCHANGED <<txVars, docVars, calcVars>>
    /\ \E q \in Queries, n \in MaxFlags \cup {CompareDefault} : HandleCompare(q, n)

Explain ==
    /\ Idle
    /\ UNCHANGED <<txVars, docVars, calcVars>>
    /\ \E q \in Queries, g \in CategoryFlags, n \in MaxFlags \cup {ExplainDefault} :
           HandleExplain(q, g, n)

ExplainGenerate ==
    /\ UNCHANGED <<txVars, docVars, calcVars>>
    /\ ExplainResults

VisualizeCategories ==
    /\ Idle
    /\ UNCHANGED <<txVars, docVars, calcVars>>
    /\ \E q \in Queries, f \in FilterFlags, n \in MaxFlags \cup {CategoriesDefault} :
           HandleCategories(q, f, n)

VisualizeDistribution ==
    /\ Idle
    /\ UNCHANGED <<txVars, docVars, calcVars>>
    /\ \E q \in Queries, g \in CategoryFlags, b \in BucketFlags,
          n \in MaxFlags \cup {DistributionDefault} :
           HandleDistribution(q, g, b, n)

VisualizeRange ==
    /\ Idle
    /\ UNCHANGED <<txVars, docVars, calcVars>>
    /\ \E q \in Queries, g \in CategoryFlags, n \in MaxFlags \cup {RangeDefault} :
           HandleRange(q, g, n)

Exit ==
    /\ resp.cmd # "none"
    /\ resp.pc = "done"
    /\ resp' = NoResp
    /\ UNCHANGED <<documents, rank>>
    /\ UNCHANGED <<txVars, docVars, calcVars>>

Next ==
    \/ Insert
    \/ ClearCorpus
    \/ Query
    \/ Stats
    \/ Compare
    \/ Explain
    \/ ExplainGenerate
    \/ VisualizeCategories
    \/ VisualizeDistribution
    \/ VisualizeRange
    \/ Exit

Spec == Init /\ [][Next]_vars

(* Specification of the transactional commands *)
SpecTx == InitTx /\ [][NextTx]_vars

(* Specification of the phase-1 document commands *)
SpecDoc == InitDoc /\ [][NextDoc]_vars

(* Specification of concurrent updates: the table holds one inserted row and
   two runs of the update command, each with its own database connection,
   call UpdateDocument.  The SELECT and the UPDATE of a call are two
   statements outside any transaction, so the statements of the other call
   may run between them.  calc holds, for each call, its arguments, the row
   its SELECT read and its error. *)
Updaters == {1, 2}

UpdRowIDs == {1, 2}

UpdateCalls ==
    [rowID : UpdRowIDs, title : {<<>>, <<"T", " ">>}, content : {<<>>, <<"c">>},
     category : {<<>>, <<"y">>}]

InitUpd ==
    /\ documents = <<>> /\ resp = NoResp /\ TxInit /\ prog = 1
    /\ prior = <<>> /\ docResp = NoCall
    /\ table = [i \in {1} |-> [Title |-> <<"A">>, Content |-> <<"a">>,
                                Category |-> <<"x">>]]
    /\ rank \in DocBm25(table)
    /\ \E calls \in [Updaters -> UpdateCalls] :
           calc = [fn |-> "UpdateDocument",
                   call |-> [p \in Updaters |->
                                [pc |-> "called", args |-> calls[p],
                                 current |-> <<>>, err |-> "nil"]]]

UpdReturn(p, err) ==
    calc' = [calc EXCEPT !.call[p].pc = "returned", !.call[p].err = err]

(* UpdateDocument up to its SELECT: the validation of the arguments, then the
   current values of the row read into currentTitle, currentContent and
   currentCategory *)
UpdateSelect(p) ==
    LET a == calc.call[p].args
    IN  /\ calc.call[p].pc = "called"
        /\ IF a.rowID <= 0 THEN UpdReturn(p, "validation")
           ELSE IF a.title = <<>> /\ a.content = <<>> /\ a.category = <<>>
           THEN UpdReturn(p, "validation")
           ELSE IF a.rowID \notin DOMAIN table THEN UpdReturn(p, "notfound")
           ELSE calc' = [calc EXCEPT !.call[p].pc = "selected",
                                     !.call[p].current = table[a.rowID]]
        /\ UNCHANGED <<table, prior, docResp, searchVars, txVars>>

(* UpdateDocument from its UPDATE on: the three columns are set to the new
   value or to the value the SELECT read; no row affected is ErrNotFound *)
UpdateExec(p) ==
    LET a == calc.call[p].args
        cur == calc.call[p].current
    IN  /\ calc.call[p].pc = "selected"
        /\ IF a.rowID \in DOMAIN table
           THEN /\ Stores([table EXCEPT ![a.rowID] =
                               [Title |-> NewValue(a.title, cur.Title),
                                Content |-> NewValue(a.content, cur.Content),
                                Category |-> NewValue(a.category, cur.Category)]])
                /\ UpdReturn(p, "nil")
           ELSE /\ OnlyReads
                /\ UpdReturn(p, "notfound")
        /\ UNCHANGED <<prior, docResp, documents, resp, txVars>>

UpdSelectStep ==
    /\ calc.fn = "UpdateDocument"
    /\ \E p \in Updaters : UpdateSelect(p)

UpdExecStep ==
    /\ calc.fn = "UpdateDocument"
    /\ \E p \in Updaters : UpdateExec(p)

NextUpd ==
    \/ UpdSelectStep
    \/ UpdExecStep

SpecUpd == InitUpd /\ [][NextUpd]_vars

(* Specification of the statistics functions: a list of results whose scores
   stand in the order the results arrive, and one of GetSearchStats,
   generateScoreDistribution and generateRangeAnalysis applied to it. *)
StatScores == {0 - 3, 1, 2, 3, 4, 5}

(* Scores that are binary fractions: -0.125, 0, 0.125 and 0.25 *)
BinaryScores == {0 - 125, 0, 125, 250}

ScoreLists ==
    UNION {[1..n -> StatScores] \cup [1..n -> BinaryScores] : n \in 0..MaxScores}

ResultsOf(scores) ==
    [i \in 1..Len(scores) |-> [Score |-> scores[i], Category |-> <<"x">>]]

InitStats ==
    /\ SearchInit /\ TxInit /\ prog = 2 /\ DocInit
    /\ \E s \in ScoreLists : calc = [fn |-> "none", results |-> ResultsOf(s)]

ApplyStats ==
    /\ calc.fn = "none"
    /\ \E below \in SUBSET MayRoundBelow(Float64s(ScoresOf(calc.results)),
                                          HistogramBuckets) :
           calc' = [fn |-> "GetSearchStats", results |-> calc.results,
                    below |-> below,
                    out |-> GetSearchStats(calc.results, <<"A">>, below)]
    /\ UNCHANGED <<searchVars, txVars, docVars>>

(* HandleDistribution calls generateScoreDistribution with --buckets *)
ApplyDistribution ==
    /\ calc.fn = "none"
    /\ \E b \in BucketFlags :
           \E below \in SUBSET MayRoundBelow(Float64s(ScoresOf(calc.results)), b) :
               calc' = [fn |-> "generateScoreDistribution", results |-> calc.results,
                        numBuckets |-> b, below |-> below,
                        out |-> generateScoreDistribution(calc.results, b, below),
                        panic |-> generateScoreDistributionPanic(calc.results, b,
                                                                 below)]
    /\ UNCHANGED <<searchVars, txVars, docVars>>

(* HandleRange calls generateRangeAnalysis when the search returned results *)
ApplyRange ==
    /\ calc.fn = "none"
    /\ Len(calc.results) > 0
    /\ calc' = [fn |-> "generateRangeAnalysis", results |-> calc.results,
                out |-> generateRangeAnalysis(calc.results)]
    /\ UNCHANGED <<searchVars, txVars, docVars>>

NextStats ==
    \/ ApplyStats
    \/ ApplyDistribution
    \/ ApplyRange

SpecStats == InitStats /\ [][NextStats]_vars

(* Specification of the per-term score: a document whose content holds
   `tokens' words, `occ' of them the query term "a" and the others "b", an
   average document length, and calculateLengthNormalization or
   calculateTermScore applied to them. *)
TokenCounts == {MaxTF, MaxTF + 3}

Averages == {[sum |-> 10, n |-> 1], [sum |-> 25, n |-> 2], [sum |-> 7, n |-> 3]}

RECURSIVE Words(_, _)
Words(word, k) ==
    IF k = 0 THEN <<>>
    ELSE IF k = 1 THEN word
    ELSE SpaceJoin(word, Words(word, k - 1))

(* The result row of a document with occ words "a" among its content words *)
TermDoc(occ, tokens) ==
    LET content == IF occ = 0 THEN Words(<<"b">>, tokens)
                   ELSE IF occ = tokens THEN Words(<<"a">>, tokens)
                   ELSE SpaceJoin(Words(<<"a">>, occ), Words(<<"b">>, tokens - occ))
    IN  [ID |-> 1, Title |-> <<"t">>, Content |-> content, Category |-> <<"x">>,
         Length |-> DocLength(<<"t">>, content)]

InitScore ==
    /\ SearchInit /\ TxInit /\ prog = 2 /\ DocInit
    /\ \E occ \in 0..MaxTF, tokens \in TokenCounts, avg \in Averages :
           calc = [fn |-> "none", term |-> <<"a">>, occ |-> occ, tokens |-> tokens,
                   result |-> TermDoc(occ, tokens), avg |-> avg]

ApplyLengthNormalization ==
    /\ calc.fn = "none"
    /\ calc' = [calc EXCEPT !.fn = "calculateLengthNormalization"] @@
               [out |-> calculateLengthNormalization(calc.result.Length, calc.avg)]
    /\ UNCHANGED <<searchVars, txVars, docVars>>

ApplyTermScore ==
    /\ calc.fn = "none"
    /\ calc' = [calc EXCEPT !.fn = "calculateTermScore"] @@
               [out |-> calculateTermScore(calc.term, calc.result, calc.avg)]
    /\ UNCHANGED <<searchVars, txVars, docVars>>

NextScore ==
    \/ ApplyLengthNormalization
    \/ ApplyTermScore

SpecScore == InitScore /\ [][NextScore]_vars

----------------------------------------------------------------------------
(* Errors (package errors of setup-validation and of bm25-fundamentals).  An
   error is its text and the errors it wraps; the nil error wraps nothing. *)

(* errors.New *)
New(text) == [text |-> text, wraps |-> <<>>]

Nil == New("nil")

ErrValidation == New("validation failed")
ErrDatabase == New("database operation failed")
ErrFTS5 == New("FTS5 operation failed")
ErrNotFound == New("not found")
ErrTransaction == New("transaction failed")
ErrConnection == New("connection failed")
ErrAnalysis == New("analysis failed")
ErrVisualization == New("visualization failed")

Sentinels ==
    {ErrValidation, ErrDatabase, ErrFTS5, ErrNotFound, ErrTransaction,
     ErrConnection, ErrAnalysis, ErrVisualization}

(* The error a database/sql call returns: it wraps no sentinel *)
DriverError == New("driver")

(* fmt.Errorf("%w: " + format, sentinel, args...): the error wraps the
   sentinel and every operand of a %w verb of the format (args) *)
Errorf(sentinel, args) == [text |-> sentinel.text, wraps |-> <<sentinel>> \o args]

Validationf(args) == Errorf(ErrValidation, args)
Databasef(args) == Errorf(ErrDatabase, args)
FTS5f(args) == Errorf(ErrFTS5, args)
NotFoundf(args) == Errorf(ErrNotFound, args)
Transactionf(args) == Errorf(ErrTransaction, args)
Connectionf(args) == Errorf(ErrConnection, args)
Analysisf(args) == Errorf(ErrAnalysis, args)
Visualizationf(args) == Errorf(ErrVisualization, args)

HelperNames ==
    {"Validationf", "Databasef", "FTS5f", "NotFoundf", "Transactionf",
     "Connectionf", "Analysisf", "Visualizationf"}

SentinelOf(helper) ==
    CASE helper = "Validationf" -> ErrValidation
      [] helper = "Databasef" -> ErrDatabase
      [] helper = "FTS5f" -> ErrFTS5
      [] helper = "NotFoundf" -> ErrNotFound
      [] helper = "Transactionf" -> ErrTransaction
      [] helper = "Connectionf" -> ErrConnection
      [] helper = "Analysisf" -> ErrAnalysis
      [] helper = "Visualizationf" -> ErrVisualization

CallHelper(helper, args) ==
    CASE helper = "Validationf" -> Validationf(args)
      [] helper = "Databasef" -> Databasef(args)
      [] helper = "FTS5f" -> FTS5f(args)
      [] helper = "NotFoundf" -> NotFoundf(args)
      [] helper = "Transactionf" -> Transactionf(args)
      [] helper = "Connectionf" -> Connectionf(args)
      [] helper = "Analysisf" -> Analysisf(args)
      [] helper = "Visualizationf" -> Visualizationf(args)

(* errors.Is: err is the target or wraps, at any depth, an error that is *)
RECURSIVE Is(_, _)
Is(err, target) ==
    \/ err = target
    \/ \E i \in 1..Len(err.wraps) : Is(err.wraps[i], target)

(* The switch of a display function: the first case, in the order given,
   whose sentinel the error is; the default case when there is none *)
RECURSIVE CategoryIn(_, _)
CategoryIn(err, order) ==
    IF order = <<>> THEN "Error"
    ELSE IF Is(err, Head(order)) THEN Head(order).text
    ELSE CategoryIn(err, Tail(order))

(* setup-validation displaySimple *)
SimpleOrder == <<ErrValidation, ErrDatabase, ErrFTS5, ErrConnection>>

displaySimple(err) == CategoryIn(err, SimpleOrder)

(* bm25-fundamentals displaySimpleError *)
SimpleErrorOrder ==
    <<ErrValidation, ErrDatabase, ErrFTS5, ErrNotFound, ErrTransaction,
      ErrAnalysis, ErrVisualization>>

displaySimpleError(err) == CategoryIn(err, SimpleErrorOrder)

(* setup-validation Database.GetSQLiteVersion *)
GetSQLiteVersion(failed) ==
    IF failed THEN Databasef(<<DriverError>>) ELSE Nil

(* ValidationHandler.validateSQLiteConnection *)
validateSQLiteConnection(failed) ==
    LET err == GetSQLiteVersion(failed)
    IN  IF err # Nil THEN Connectionf(<<err>>) ELSE Nil

(* Database.VerifyFTS5Support, CreateTestTable, InsertTestData,
   CountDocuments and QueryWithBM25 *)
VerifyFTS5Support(step) ==
    IF step = "verify" THEN FTS5f(<<DriverError>>)
    ELSE IF step = "unavailable" THEN FTS5f(<<>>)
    ELSE Nil

CreateTestTable(step) == IF step = "create" THEN FTS5f(<<DriverError>>) ELSE Nil

InsertTestData(step) == IF step = "insert" THEN Databasef(<<DriverError>>) ELSE Nil

CountDocuments(step) == IF step = "count" THEN Databasef(<<DriverError>>) ELSE Nil

QueryWithBM25(step) == IF step = "query" THEN FTS5f(<<DriverError>>) ELSE Nil

(* ValidationHandler.validateFTS5Support; step names the call that fails *)
validateFTS5Support(step) ==
    IF VerifyFTS5Support(step) # Nil THEN VerifyFTS5Support(step)
    ELSE CreateTestTable(step)

(* ValidationHandler.validateTestData *)
validateTestData(step) ==
    IF CreateTestTable(step) # Nil THEN CreateTestTable(step)
    ELSE IF InsertTestData(step) # Nil THEN InsertTestData(step)
    ELSE IF CountDocuments(step) # Nil THEN CountDocuments(step)
    ELSE IF step = "mismatch" THEN Validationf(<<>>)
    ELSE Nil

(* ValidationHandler.validateBM25Scoring *)
validateBM25Scoring(step) ==
    IF CreateTestTable(step) # Nil THEN CreateTestTable(step)
    ELSE IF InsertTestData(step) # Nil THEN InsertTestData(step)
    ELSE IF QueryWithBM25(step) # Nil THEN QueryWithBM25(step)
    ELSE IF step = "scan" THEN Databasef(<<DriverError>>)
    ELSE IF step \in {"noresults", "nonegative"} THEN Validationf(<<>>)
    ELSE Nil

FTS5Steps == {"none", "verify", "unavailable", "create"}

TestDataSteps == {"none", "create", "insert", "count", "mismatch"}

BM25Steps == {"none", "create", "insert", "query", "scan", "noresults", "nonegative"}

(* models.ValidationSuite: the results added and the three counters *)
NewSuite == [Results |-> <<>>, Passed |-> 0, Failed |-> 0, Total |-> 0]

(* ValidationSuite.AddResult *)
AddResult(vs, result) ==
    [Results |-> Append(vs.Results, result),
     Total |-> vs.Total + 1,
     Passed |-> IF result.Passed THEN vs.Passed + 1 ELSE vs.Passed,
     Failed |-> IF result.Passed THEN vs.Failed ELSE vs.Failed + 1]

(* IsSuccessful without its test of Total *)
IsSuccessfulNoneFailed(vs) == vs.Failed = 0

(* ValidationSuite.IsSuccessful *)
IsSuccessful(vs) == vs.Failed = 0 /\ vs.Total > 0

(* ValidationHandler.runValidationCheck, given the error fn() returned *)
runValidationCheck(name, err) == [Name |-> name, Passed |-> err = Nil, Error |-> err]

(* ValidationHandler.validateUtilities *)
validateUtilities == Nil

(* The checks of HandleValidateAll with the error each returns when the
   call named by its step fails *)
ValidationChecks(failed, fts5, data, bm25) ==
    <<[name |-> "SQLite Connection", err |-> validateSQLiteConnection(failed)],
      [name |-> "FTS5 Support", err |-> validateFTS5Support(fts5)],
      [name |-> "Test Data Generation", err |-> validateTestData(data)],
      [name |-> "BM25 Scoring", err |-> validateBM25Scoring(bm25)],
      [name |-> "Shared Utilities", err |-> validateUtilities]>>

(* The loop of HandleValidateAll over its checks *)
RECURSIVE RunChecks(_, _)
RunChecks(suite, checks) ==
    IF checks = <<>> THEN suite
    ELSE RunChecks(AddResult(suite, runValidationCheck(Head(checks).name,
                                                       Head(checks).err)),
                   Tail(checks))

(* ValidationHandler.HandleValidateAll: the suite it filled and the error it
   returns *)
ValidateAll(checks) ==
    LET suite == RunChecks(NewSuite, checks)
    IN  [suite |-> suite,
         err |-> IF ~IsSuccessful(suite) THEN Validationf(<<>>) ELSE Nil]

(* Specification of the error helpers and of the setup-validation commands:
   a helper is applied to a format without or with a %w operand, or one
   command runs while a call of its choice fails. *)
HelperErrors ==
    {CallHelper(h, args) : h \in HelperNames, args \in {<<>>, <<DriverError>>}}

Operands == {Nil, DriverError} \cup HelperErrors

HandlerNames ==
    {"HandleConnect", "HandleFTS5", "HandleTestData", "HandleBM25", "HandleValidateAll"}

InitErr ==
    /\ SearchInit /\ TxInit /\ prog = 2 /\ DocInit
    /\ \E operand \in Operands : calc = [fn |-> "none", operand |-> operand]

(* The command runs when the driver fails with DriverError, and returns err *)
CanRun == calc.fn = "none" /\ calc.operand = DriverError

Returned(fn, err) ==
    /\ calc' = [fn |-> fn, operand |-> calc.operand, out |-> err]
    /\ UNCHANGED <<searchVars, txVars, docVars>>

ApplyHelper ==
    /\ calc.fn = "none"
    /\ \E h \in HelperNames :
           calc' = [fn |-> h, operand |-> calc.operand,
                    out |-> CallHelper(h, IF calc.operand = Nil THEN <<>>
                                          ELSE <<calc.operand>>)]
    /\ UNCHANGED <<searchVars, txVars, docVars>>

HandleConnect ==
    /\ CanRun
    /\ \E failed \in BOOLEAN :
           Returned("HandleConnect", validateSQLiteConnection(failed))

HandleFTS5 ==
    /\ CanRun
    /\ \E step \in FTS5Steps : Returned("HandleFTS5", validateFTS5Support(step))

HandleTestData ==
    /\ CanRun
    /\ \E step \in TestDataSteps : Returned("HandleTestData", validateTestData(step))

HandleBM25 ==
    /\ CanRun
    /\ \E step \in BM25Steps : Returned("HandleBM25", validateBM25Scoring(step))

(* HandleValidateAll: the error of a failed check is kept in the suite; the
   command returns a validation error when a check failed *)
HandleValidateAll ==
    /\ CanRun
    /\ \E failed \in BOOLEAN, fts5 \in FTS5Steps, data \in TestDataSteps,
          bm25 \in BM25Steps :
           Returned("HandleValidateAll",
                    ValidateAll(ValidationChecks(failed, fts5, data, bm25)).err)

NextErr ==
    \/ ApplyHelper
    \/ HandleConnect
    \/ HandleFTS5
    \/ HandleTestData
    \/ HandleBM25
    \/ HandleValidateAll

SpecErr == InitErr /\ [][NextErr]_vars

----------------------------------------------------------------------------
(* Specification of the validation suite: results are added to a new suite
   one by one and IsSuccessful is asked in between, or HandleValidateAll
   runs its five checks, each with a call of its choice failing. *)
InitSuite ==
    /\ SearchInit /\ TxInit /\ prog = 2 /\ DocInit
    /\ calc = [fn |-> "NewSuite", suite |-> NewSuite, successful |-> FALSE,
               err |-> Nil]

SuiteAddResult ==
    /\ calc.fn \in {"NewSuite", "AddResult", "IsSuccessful"}
    /\ calc.suite.Total < MaxAdded
    /\ \E err \in {Nil, DriverError} :
           calc' = [fn |-> "AddResult",
                    suite |-> AddResult(calc.suite, runValidationCheck("check", err)),
                    successful |-> FALSE, err |-> Nil]
    /\ UNCHANGED <<searchVars, txVars, docVars>>

SuiteIsSuccessful ==
    /\ calc.fn \in {"NewSuite", "AddResult"}
    /\ calc' = [fn |-> "IsSuccessful", suite |-> calc.suite,
                successful |-> IsSuccessful(calc.suite), err |-> Nil]
    /\ UNCHANGED <<searchVars, txVars, docVars>>

SuiteValidateAll ==
    /\ calc.fn = "NewSuite"
    /\ \E failed \in BOOLEAN, fts5 \in FTS5Steps, data \in TestDataSteps,
          bm25 \in BM25Steps :
           LET all == ValidateAll(ValidationChecks(failed, fts5, data, bm25))
           IN  calc' = [fn |-> "HandleValidateAll", suite |-> all.suite,
                        successful |-> IsSuccessful(all.suite), err |-> all.err]
    /\ UNCHANGED <<searchVars, txVars, docVars>>

NextSuite ==
    \/ SuiteAddResult
    \/ SuiteIsSuccessful
    \/ SuiteValidateAll

SpecSuite == InitSuite /\ [][NextSuite]_vars

----------------------------------------------------------------------------
(* Specification of corpus generation: one run of GenerateCorpus on an empty
   corpus, from its options to the return of BatchInsertDocuments. *)
Seeds == 0..2

TokenRanges == {<<1, 2>>, <<2, 2>>}

CategoryLists ==
    {<< <<"technology">>, <<"science">>, <<"programming">>, <<"database">>,
        <<"algorithms">> >>,
     << <<"database">> >>, << <<"tech">>, <<"science">> >>}

CorpusOptions ==
    {[Size |-> size, Categories |-> cats, MinTokens |-> r[1], MaxTokens |-> r[2],
      Seed |-> seed] :
        size \in 0..MaxSize, cats \in CategoryLists, r \in TokenRanges,
        seed \in Seeds}

InitCorpus ==
    /\ SearchInit /\ TxInit /\ prog = 2 /\ DocInit
    /\ \E options \in CorpusOptions : calc = [fn |-> "none", options |-> options]

CorpusGenerate ==
    /\ calc.fn = "none"
    /\ \E times \in ClockReadings(calc.options), stream \in Streams :
           LET source == [seed \in {SeedOf(calc.options, times)} |-> stream]
           IN  /\ GenerateCorpus(calc.options, source, times)
               /\ calc' = [fn |-> "GenerateCorpus", options |-> calc.options,
                           source |-> source, times |-> times,
                           out |-> GeneratedDocuments(calc.options, source, times)]
    /\ UNCHANGED <<searchVars, docVars>>

NextCorpus ==
    \/ CorpusGenerate
    \/ BatchBeginStep
    \/ BatchExecStep
    \/ BatchCommitStep

SpecCorpus == InitCorpus /\ [][NextCorpus]_vars

----------------------------------------------------------------------------
(* The comparison of search compare (SearchHandler.HandleCompare,
   parseWeights, generateComparison and analyzeResultOverlap).  A string is
   the sequence of its characters; a weights map is nil or a function from
   field names to weights. *)

(* The orders in which a range over a Go map with the keys S may visit them *)
RECURSIVE MapOrders(_)
MapOrders(S) ==
    IF S = {} THEN {<<>>}
    ELSE UNION {{<<x>> \o s : s \in MapOrders(S \ {x})} : x \in S}

Digits == <<"0", "1", "2", "3", "4", "5", "6", "7", "8", "9">>

IsDigits(s) == \A i \in 1..Len(s) : \E d \in 1..10 : Digits[d] = s[i]

RECURSIVE DecimalValue(_)
DecimalValue(s) ==
    IF s = <<>> THEN 0
    ELSE 10 * DecimalValue(SubSeq(s, 1, Len(s) - 1))
         + (CHOOSE d \in 0..9 : Digits[d + 1] = s[Len(s)])

RECURSIVE PowerOfTen(_)
PowerOfTen(n) == IF n = 0 THEN 1 ELSE 10 * PowerOfTen(n - 1)

(* strconv.ParseFloat(s, 64) of a decimal number: an optional sign, digits
   and an optional fraction, with a digit on at least one side of the point;
   the value is the exact fraction num / den.  Exponents, hexadecimal
   numbers, infinities and NaN are not among the weights given. *)
ParseFloat(s) ==
    LET signed == s # <<>> /\ Head(s) \in {"+", "-"}
        body == IF signed THEN Tail(s) ELSE s
        parts == Split(body, ".")
        whole == parts[1]
        frac == IF Len(parts) = 2 THEN parts[2] ELSE <<>>
        ok == /\ Len(parts) <= 2
              /\ IsDigits(whole) /\ IsDigits(frac)
              /\ Len(whole) + Len(frac) > 0
        sign == IF signed /\ Head(s) = "-" THEN 0 - 1 ELSE 1
    IN  IF ok
        THEN [ok |-> TRUE,
              num |-> sign * (DecimalValue(whole) * PowerOfTen(Len(frac))
                              + DecimalValue(frac)),
              den |-> PowerOfTen(Len(frac))]
        ELSE [ok |-> FALSE, num |-> 0, den |-> 1]

(* The loop of parseWeights over the pairs left, weights being the map so
   far: a pair that is not field:weight, or a weight that is no number, ends
   it with an error and a nil map *)
RECURSIVE ParsePairs(_, _)
ParsePairs(pairs, weights) ==
    IF pairs = <<>> THEN [nil |-> FALSE, weights |-> weights, err |-> "nil"]
    ELSE LET parts == Split(TrimSpace(Head(pairs)), ":")
         IN  IF Len(parts) # 2
             THEN [nil |-> TRUE, weights |-> <<>>, err |-> "invalid weight pair"]
             ELSE LET field == TrimSpace(parts[1])
                      weight == ParseFloat(TrimSpace(parts[2]))
                  IN  IF ~weight.ok
                      THEN [nil |-> TRUE, weights |-> <<>>,
                            err |-> "invalid weight value"]
                      ELSE ParsePairs(Tail(pairs),
                               [f \in DOMAIN weights \cup {field} |->
                                   IF f = field
                                   THEN [num |-> weight.num, den |-> weight.den]
                                   ELSE weights[f]])

(* SearchHandler.parseWeights: nil and no error for the empty string, else
   the pairs between the commas *)
parseWeights(weightStr) ==
    IF weightStr = <<>> THEN [nil |-> TRUE, weights |-> <<>>, err |-> "nil"]
    ELSE ParsePairs(Split(weightStr, ","), <<>>)

(* (n * 2^k) mod d, by doubling *)
RECURSIVE ShiftMod(_, _, _)
ShiftMod(n, k, d) == IF k = 0 THEN n % d ELSE ShiftMod((2 * n) % d, k - 1, d)

(* The binary exponent of n / d > 0: the e with 2^e <= n / d < 2^(e + 1) *)
RECURSIVE Exponent(_, _)
Exponent(n, d) ==
    IF n < d THEN Exponent(2 * n, d) - 1
    ELSE IF n >= 2 * d THEN Exponent(n, 2 * d) + 1
    ELSE 0

(* The float64 ParseFloat returns for the decimal n / d > 0 is the multiple
   of 2^(e - 52) nearest to it, e being its exponent: the sign of the
   float64 less the decimal.  rest is what n / d leaves above the multiple
   below it, in units of 2^(e - 52) / d; it is never a half for a decimal
   that is no binary fraction. *)
Float64Error(n, d) ==
    LET rest == ShiftMod(n, 52 - Exponent(n, d), d)
    IN  IF rest = 0 THEN 0 ELSE IF 2 * rest < d THEN 0 - 1 ELSE 1

(* fmt.Sprintf("%.2f", w): the float64 of the weight in hundredths, rounded
   to the nearest; the float64 of a decimal half way between two hundredths
   is that decimal, which goes to the even one, or lies below or above it.
   A decimal elsewhere is further from the half way than its float64 is
   from it. *)
Hundredths(w) ==
    LET n == IF w.num >= 0 THEN w.num ELSE 0 - w.num
        whole == (100 * n) \div w.den
        twice == 200 * n - 2 * whole * w.den
        magnitude ==
            IF twice < w.den THEN whole
            ELSE IF twice > w.den THEN whole + 1
            ELSE LET error == Float64Error(n, w.den)
                 IN  IF error < 0 THEN whole
                     ELSE IF error > 0 THEN whole + 1
                     ELSE IF whole % 2 = 0 THEN whole ELSE whole + 1
    IN  IF w.num >= 0 THEN magnitude ELSE 0 - magnitude

(* buildSearchQuery: the score expression.  Without weights it is
   bm25(documents_fts); else bm25 is given the weights of title, content and
   category, 1.0 for a column the map does not name. *)
ScoreColumns == <<<<"t", "i", "t", "l", "e">>,
                  <<"c", "o", "n", "t", "e", "n", "t">>,
                  <<"c", "a", "t", "e", "g", "o", "r", "y">>>>

ScoreExpr(weights) ==
    IF weights.nil \/ DOMAIN weights.weights = {} THEN <<100, 100, 100>>
    ELSE [c \in 1..3 |-> IF ScoreColumns[c] \in DOMAIN weights.weights
                          THEN Hundredths(weights.weights[ScoreColumns[c]])
                          ELSE 100]

(* baselineMap, weightedMap: the results by ID, a later result replacing an
   earlier one of the same ID *)
ResultMap(results) ==
    [id \in {results[i].ID : i \in 1..Len(results)} |->
        results[CHOOSE i \in 1..Len(results) :
                    /\ results[i].ID = id
                    /\ \A j \in (i + 1)..Len(results) : results[j].ID # id]]

(* The Strategies map generateComparison fills: "weighted" only for weights
   that are not nil *)
StrategiesOf(baseline, comparison, weights) ==
    IF weights.nil THEN [s \in {"baseline"} |-> baseline]
    ELSE [s \in {"baseline", "weighted"} |->
              IF s = "baseline" THEN baseline ELSE comparison]

(* SearchHandler.analyzeResultOverlap: the CommonDocs and UniqueDocs it may
   leave in the comparison; nothing is touched for fewer than two strategies *)
analyzeResultOverlap(strategies) ==
    IF Cardinality(DOMAIN strategies) < 2
    THEN {[CommonDocs |-> <<>>, UniqueDocs |-> <<>>]}
    ELSE LET baselineMap == ResultMap(strategies["baseline"])
             weightedMap == ResultMap(strategies["weighted"])
             both == {id \in DOMAIN baselineMap : id \in DOMAIN weightedMap}
             onlyBaseline == {id \in DOMAIN baselineMap : id \notin DOMAIN weightedMap}
             onlyWeighted == {id \in DOMAIN weightedMap : id \notin DOMAIN baselineMap}
         IN  {[CommonDocs |-> [k \in 1..Len(c) |-> baselineMap[c[k]]],
               UniqueDocs |->
                   [s \in {"baseline", "weighted"} |->
                       IF s = "baseline"
                       THEN [k \in 1..Len(b) |-> baselineMap[b[k]]]
                       ELSE [k \in 1..Len(w) |-> weightedMap[w[k]]]]] :
                 c \in MapOrders(both), b \in MapOrders(onlyBaseline),
                 w \in MapOrders(onlyWeighted)}

(* SearchHandler.generateComparison: the comparisons it may return *)
generateComparison(query, baseline, comparison, weights) ==
    LET strategies == StrategiesOf(baseline, comparison, weights)
    IN  {[Query |-> query, Strategies |-> strategies,
          CommonDocs |-> o.CommonDocs, UniqueDocs |-> o.UniqueDocs] :
            o \in analyzeResultOverlap(strategies)}

(* Specification of the comparison: one run of HandleCompare.  The table is
   seen through the query: matching are the documents that match it, score
   their bm25 values with equal column weights and weighted their values
   with other weights.  Each Search is one statement outside any
   transaction, so another connection may write between the two. *)
Hits == 1..MaxHits

HitScores == {0 - 2, 0 - 1}

(* --max-results of search compare *)
CompareMaxFlags == (0 - 1)..MaxHits

(* --compare-weights: none, "title:2", "x:1", "title", "title:x", and the
   weights 1.005 (the float64 below it prints as 1.00), 0.035 (the float64
   above it prints as 0.04) and -0.125 (a float64, prints as -0.12) *)
WeightFlags ==
    {<<>>,
     <<"t", "i", "t", "l", "e", ":", "2">>,
     <<"x", ":", "1">>,
     <<"t", "i", "t", "l", "e">>,
     <<"t", "i", "t", "l", "e", ":", "x">>,
     <<"t", "i", "t", "l", "e", ":", "1", ".", "0", "0", "5">>,
     <<"t", "i", "t", "l", "e", ":", "0", ".", "0", "3", "5">>,
     <<"t", "i", "t", "l", "e", ":", "-", "0", ".", "1", "2", "5">>}

(* The tables a run may find *)
HitTables ==
    UNION {[matching : {m}, score : [m -> HitScores], weighted : [m -> HitScores]] :
              m \in SUBSET Hits}

(* What Search may return for the matching documents and their scores:
   best score first, documents of equal score in any order (ORDER BY score
   has no second key); at most maxResults results for maxResults > 0, all of
   them without the LIMIT *)
SearchHits(matching, score, maxResults) ==
    {[k \in 1..(IF maxResults > 0 THEN Min(maxResults, Len(ranked))
                 ELSE Len(ranked)) |->
         [ID |-> ranked[k], Score |-> score[ranked[k]]]] :
        ranked \in {s \in MapOrders(matching) :
                       \A i, j \in 1..Len(s) :
                           i < j => score[s[i]] <= score[s[j]]}}

(* Search on the table as it is, scored by the expression of the weights;
   an error of the engine is one of QueryContext (FTS5f) or of the rows
   (Databasef) *)
SearchTable(weights, outcome) ==
    IF outcome # "nil" THEN {[results |-> <<>>, err |-> outcome]}
    ELSE {[results |-> hits, err |-> "nil"] :
             hits \in SearchHits(calc.table.matching,
                                 IF ScoreExpr(weights) = <<100, 100, 100>>
                                 THEN calc.table.score ELSE calc.table.weighted,
                                 calc.maxResults)}

SearchOutcomes == {"nil", "fts5", "database"}

InitCompare ==
    /\ SearchInit /\ TxInit /\ prog = 2 /\ DocInit
    /\ \E corpus \in HitTables, maxResults \in CompareMaxFlags, flag \in WeightFlags :
           calc = [fn |-> "HandleCompare", pc |-> "called",
                   compareWeights |-> flag, maxResults |-> maxResults,
                   table |-> corpus, baselineResults |-> <<>>,
                   comparisonResults |-> <<>>, err |-> "nil", out |-> <<>>]

(* HandleCompare up to the return of its baseline search *)
CompareBaseline ==
    /\ calc.pc = "called"
    /\ \E outcome \in SearchOutcomes :
           \E out \in SearchTable(parseWeights(<<>>), outcome) :
               calc' = [calc EXCEPT
                           !.pc = IF out.err = "nil" THEN "searched" ELSE "returned",
                           !.baselineResults = out.results,
                           !.err = out.err]
    /\ UNCHANGED <<searchVars, txVars, docVars>>

(* Another connection deletes a matching document, or inserts one, which
   gets an id above those of the table; bm25 is computed anew *)
CompareWrite ==
    /\ calc.pc \in {"called", "searched"}
    /\ \E corpus \in HitTables :
           /\ \/ \E id \in calc.table.matching :
                     corpus.matching = calc.table.matching \ {id}
              \/ \E id \in Hits :
                     /\ \A other \in calc.table.matching : other < id
                     /\ corpus.matching = calc.table.matching \cup {id}
           /\ calc' = [calc EXCEPT !.table = corpus]
    /\ UNCHANGED <<searchVars, txVars, docVars>>

(* HandleCompare from the baseline results on: comparisonResults are the
   baseline results unless --compare-weights is given; weights that do not
   parse are a validation error, an error of the second Search is returned;
   else the comparison is generated and displayed *)
CompareWeighted ==
    /\ calc.pc = "searched"
    /\ LET weights == parseWeights(calc.compareWeights)
       IN  IF calc.compareWeights = <<>>
           THEN \E comp \in generateComparison(<<"A">>, calc.baselineResults,
                                                calc.baselineResults, weights) :
                    calc' = [calc EXCEPT !.pc = "returned",
                                         !.comparisonResults = calc.baselineResults,
                                         !.out = comp]
           ELSE IF weights.err # "nil"
           THEN calc' = [calc EXCEPT !.pc = "returned", !.err = "validation"]
           ELSE \E outcome \in SearchOutcomes :
                    \E out \in SearchTable(weights, outcome) :
                        IF out.err # "nil"
                        THEN calc' = [calc EXCEPT !.pc = "returned",
                                                  !.err = out.err]
                        ELSE \E comp \in generateComparison(<<"A">>,
                                              calc.baselineResults, out.results,
                                              weights) :
                                 calc' = [calc EXCEPT
                                             !.pc = "returned",
                                             !.comparisonResults = out.results,
                                             !.out = comp]
    /\ UNCHANGED <<searchVars, txVars, docVars>>

NextCompare ==
    \/ CompareBaseline
    \/ CompareWrite
    \/ CompareWeighted

SpecCompare == InitCompare /\ [][NextCompare]_vars

----------------------------------------------------------------------------
(* Properties of phase 2 searching, checked under Spec *)

(* A command has searched the table as it is now *)
Searched == resp.cmd # "none" /\ ~resp.modified

Answered == Searched /\ resp.err = "nil"

(* The rows a search with these options is about, read from the table *)
MatchingRows(options) ==
    {i \in 1..Len(documents) :
        /\ Matches(documents[i], options.Query)
        /\ options.CategoryFilter # <<>> =>
               documents[i].Category = options.CategoryFilter}

ResultIDs == {resp.results[i].ID : i \in 1..Len(resp.results)}

RECURSIVE SumScoreNum(_)
SumScoreNum(terms) ==
    IF terms = <<>> THEN 0 ELSE Head(terms).ScoreNum + SumScoreNum(Tail(terms))

(* C1: in every explanation search explain builds, the per-term scores
   (QueryTerms[i].Score) add up to TotalScore, the score Search returned,
   within a relative tolerance of 1e-9.  The terms of one explanation share
   the denominator ScoreDen, and TotalScore is in thousandths, so the two
   sides are compared as 1000 * sum(ScoreNum) and TotalScore * ScoreDen. *)
ExplainSumEqualsTotal ==
    (resp.cmd = "explain" /\ resp.err = "nil") =>
        \A e \in 1..Len(resp.explanations) :
            LET x == resp.explanations[e]
                den == x.QueryTerms[1].ScoreDen
                diff == 1000 * SumScoreNum(x.QueryTerms) - x.TotalScore * den
            IN  Abs(diff) <= Abs(x.TotalScore * den) \div 1000000000

(* C2: results come best first (ascending score), results of equal score in
   ascending id order, and a second Search with the same options on the
   unchanged table returns the same sequence. *)
ResultsBestFirstTieByID ==
    Answered =>
        /\ \A i, j \in 1..Len(resp.results) : i < j =>
               \/ resp.results[i].Score < resp.results[j].Score
               \/ /\ resp.results[i].Score = resp.results[j].Score
                  /\ resp.results[i].ID < resp.results[j].ID
        /\ \A out \in Search(resp.options) :
               out.err = "nil" /\ out.results = resp.results

(* C3: a search with maximum N >= 1 of a table not written to since returns
   min(N, number of matching rows) results, all of them matching rows, none of them scoring higher than a
   matching row left out; DefaultSearchOptions sets the maximum to 20, and
   search query without a positive --max-results uses 20. *)
TruncatedToNBest ==
    /\ DefaultSearchOptions.MaxResults = 20
    /\ (resp.cmd = "query" /\ resp.args.maxResults <= 0) =>
           resp.options.MaxResults = 20
    /\ (Answered /\ resp.options.MaxResults >= 1) =>
           LET M == MatchingRows(resp.options)
           IN  /\ Len(resp.results) = Min(resp.options.MaxResults, Cardinality(M))
               /\ Cardinality(ResultIDs) = Len(resp.results)
               /\ ResultIDs \subseteq M
               /\ \A d \in M \ ResultIDs : \A i \in ResultIDs :
                      rank[i][resp.options.Query] <= rank[d][resp.options.Query]

(* C3 witness: more rows matched than the maximum, and a better-scoring row
   was kept while a worse one was cut *)
TruncationHappened ==
    /\ Answered
    /\ resp.options.MaxResults >= 1
    /\ Len(resp.results) = resp.options.MaxResults
    /\ \E d \in MatchingRows(resp.options) \ ResultIDs :
           \E i \in ResultIDs :
               rank[i][resp.options.Query] < rank[d][resp.options.Query] /\ d < i

(* C4: a search whose maximum result count is below 1 is rejected with a
   validation error and returns no results. *)
NonPositiveMaxRejected ==
    (resp.cmd # "none" /\ resp.options.MaxResults < 1) =>
        resp.err = "validation" /\ resp.results = <<>>

(* C5: a search whose query text is empty or only whitespace is rejected
   with a validation error. *)
BlankQueryRejected ==
    (resp.cmd # "none" /\ TrimSpace(resp.options.Query) = <<>>) =>
        resp.err = "validation"

(* C6: visualize categories with --filter c and maximum N reports for
   category c the N best matching rows of category c (all of them when
   fewer match). *)
FilterBeforeTruncation ==
    (resp.cmd = "categories" /\ resp.err = "nil"
        /\ resp.options.MaxResults >= 1 /\ Len(resp.args.filter) = 1
        /\ resp.args.filter[1] # <<>>) =>
        LET c == resp.args.filter[1]
            M == {i \in 1..Len(documents) :
                     /\ Matches(documents[i], resp.options.Query)
                     /\ documents[i].Category = c}
            k == Min(resp.options.MaxResults, Cardinality(M))
        IN  IF k = 0 THEN c \notin DOMAIN resp.categoryMap
            ELSE /\ c \in DOMAIN resp.categoryMap
                 /\ \E s \in Ordered(resp.options.Query, M, k) :
                        resp.categoryMap[c].Scores =
                            [j \in 1..k |-> rank[s[j]][resp.options.Query]]

----------------------------------------------------------------------------
(* Properties of the phase-1 document commands, checked under SpecDoc *)

(* The call of this operation has returned *)
DocReturned(op) == docResp.op = op /\ docResp.pc = "done"

UnknownRowID == docResp.rowID > 0 /\ docResp.rowID \notin DOMAIN prior

NoFieldGiven ==
    docResp.title = <<>> /\ docResp.content = <<>> /\ docResp.category = <<>>

(* C8 as stated: DeleteDocument and UpdateDocument called with a positive
   rowid that matches no stored row return ErrNotFound and leave every
   stored row unchanged. *)
UnknownRowIDIsNotFound ==
    ((DocReturned("delete") \/ DocReturned("update")) /\ UnknownRowID) =>
        docResp.err = "notfound" /\ table = prior

(* C8, amended: DeleteDocument, and UpdateDocument given at least one
   non-empty field, called with a positive rowid that matches no stored row
   return ErrNotFound and leave every stored row unchanged. *)
UnknownRowIDIsNotFoundGivenAField ==
    (/\ DocReturned("delete") \/ DocReturned("update")
     /\ UnknownRowID
     /\ docResp.op = "update" => ~NoFieldGiven) =>
        docResp.err = "notfound" /\ table = prior

(* C8 witness: an update naming a field was called on a table that holds
   rows, with a rowid none of them has *)
UpdateOfUnknownRowID ==
    /\ DocReturned("update")
    /\ UnknownRowID
    /\ ~NoFieldGiven
    /\ DOMAIN prior # {}
    /\ docResp.err = "notfound"

(* C9: a successful UpdateDocument leaves the set of rowids as it was,
   leaves every other row as it was, and in the row it names sets each field
   given with a non-blank value to that value (trimmed) and keeps each other
   field. *)
UpdateChangesOnlyGivenFields ==
    (DocReturned("update") /\ docResp.err = "nil") =>
        LET id == docResp.rowID
        IN  /\ id \in DOMAIN prior
            /\ DOMAIN table = DOMAIN prior
            /\ \A j \in DOMAIN prior \ {id} : table[j] = prior[j]
            /\ table[id].Title =
                   IF IsBlank(docResp.title) THEN prior[id].Title
                   ELSE TrimSpace(docResp.title)
            /\ table[id].Content =
                   IF IsBlank(docResp.content) THEN prior[id].Content
                   ELSE TrimSpace(docResp.content)
            /\ table[id].Category =
                   IF IsBlank(docResp.category) THEN prior[id].Category
                   ELSE TrimSpace(docResp.category)

----------------------------------------------------------------------------
(* Properties of the transactional commands, checked under SpecTx *)

(* C7: once BatchInsertDocuments (of either program) has begun its
   transaction, the table holds either the rows it held at Begin or those
   rows followed by every document of the batch, at every moment and after
   the call has returned; another connection never reads anything else; and
   the whole batch is stored exactly when the call returns nil.  The call
   has returned nil to HandleGenerate when that counts the rows for its
   report, whatever the count returns. *)
BatchAllOrNothing ==
    run.batched =>
        LET all == run.base \o StoredRows(run.docs)
            counting == run.pc = "final_count" \/ run.counted
        IN  /\ store \in {run.base, all}
            /\ seen.rows \in {run.base, all}
            /\ (run.pc = "done" \/ counting) =>
                   ((counting \/ run.err = "nil") <=> store = all)

(* C7 witness: another connection read the table when the insert loop had
   written some of the batch's documents and not yet all *)
PartialBatchRead ==
    /\ run.batched
    /\ seen.next > 1
    /\ seen.next <= Len(run.docs)
    /\ Len(txn.rows) > Len(seen.rows)

(* C10: a command that fails with ErrTransaction leaves the table as it was
   when the command started. *)
TransactionErrorLeavesDatabase ==
    (run.pc = "done" /\ run.err = "transaction") => store = run.before

----------------------------------------------------------------------------
(* Properties of the statistics functions, checked under SpecStats *)

(* The scores as the results arrived *)
GivenScores == ScoresOf(calc.results)

CountBelow(s, v) == Cardinality({i \in 1..Len(s) : s[i] < v})

CountUpTo(s, v) == Cardinality({i \in 1..Len(s) : s[i] <= v})

(* The k-th smallest score of s, whatever the order of s *)
OrderStat(s, k) ==
    CHOOSE v \in Range(s) : CountBelow(s, v) < k /\ k <= CountUpTo(s, v)

(* Twice the middle of s: the two middle scores of an even-sized list, the
   middle score counted twice of an odd-sized one *)
TwiceMiddle(s) ==
    LET n == Len(s)
    IN  IF n % 2 = 0 THEN OrderStat(s, n \div 2) + OrderStat(s, (n \div 2) + 1)
        ELSE 2 * OrderStat(s, (n + 1) \div 2)

(* Two reorderings that generate every order of arrival *)
SwapFirst(s) ==
    IF Len(s) < 2 THEN s ELSE <<s[2], s[1]>> \o SubSeq(s, 3, Len(s))

Rotate(s) == IF s = <<>> THEN s ELSE Tail(s) \o <<Head(s)>>

(* Mean and median as the applied function reports them *)
ReportedBy(fn, results) ==
    IF fn = "GetSearchStats"
    THEN LET st == GetSearchStats(results, <<"A">>, {})
         IN  [Mean |-> st.ScoreDistrib.Mean, Median |-> st.ScoreDistrib.Median,
              RangeMean |-> st.ScoreRange.Mean, RangeMedian |-> st.ScoreRange.Median]
    ELSE LET ra == generateRangeAnalysis(results)
         IN  [Mean |-> ra.Mean, Median |-> ra.Median,
              RangeMean |-> ra.Mean, RangeMedian |-> ra.Median]

Reported ==
    IF calc.fn = "GetSearchStats"
    THEN [Mean |-> calc.out.ScoreDistrib.Mean, Median |-> calc.out.ScoreDistrib.Median,
          RangeMean |-> calc.out.ScoreRange.Mean,
          RangeMedian |-> calc.out.ScoreRange.Median]
    ELSE [Mean |-> calc.out.Mean, Median |-> calc.out.Median,
          RangeMean |-> calc.out.Mean, RangeMedian |-> calc.out.Median]

(* C11: for a non-empty result list, the Mean that GetSearchStats and
   generateRangeAnalysis report is the sum of the scores divided by their
   number, the Median is the middle score of the scores in ascending order
   (half the sum of the two middle scores of an even-sized list), both are
   the same for every order of arrival, and scores 1, 2, 3, 4, 5 give mean 3
   and median 3, with Min 1 and Max 5 in the range analysis. *)
MeanAndMedianOfScores ==
    (calc.fn \in {"GetSearchStats", "generateRangeAnalysis"} /\ Len(calc.results) > 0) =>
        LET s == GivenScores
            n == Len(s)
            r == Reported
        IN  /\ r.Mean.den > 0 /\ r.Median.den > 0
            /\ r.Mean.num * n = SumScores(s) * r.Mean.den
            /\ r.Median.num * 2 = TwiceMiddle(s) * r.Median.den
            /\ r.RangeMean = r.Mean /\ r.RangeMedian = r.Median
            /\ \A q \in {SwapFirst(calc.results), Rotate(calc.results)} :
                   LET o == ReportedBy(calc.fn, q)
                   IN  RatEq(o.Mean, r.Mean) /\ RatEq(o.Median, r.Median)
            /\ (n = 5 /\ Range(s) = 1..5) =>
                   /\ RatEq(r.Mean, Rat(3)) /\ RatEq(r.Median, Rat(3))
                   /\ calc.fn = "generateRangeAnalysis" =>
                          calc.out.Min = 1 /\ calc.out.Max = 5

(* C11 witness: the range analysis of scores that arrive as 5, 3, 1, 4, 2
   reports median 3 *)
MedianOfUnsortedScores ==
    /\ calc.fn = "generateRangeAnalysis"
    /\ GivenScores = <<5, 3, 1, 4, 2>>
    /\ RatEq(calc.out.Median, Rat(3))

(* The percentiles the applied function reports *)
ReportedPercentiles ==
    IF calc.fn = "GetSearchStats" THEN calc.out.ScoreDistrib.Percentiles
    ELSE calc.out.Percentiles

MinScore(s) == CHOOSE v \in Range(s) : \A u \in Range(s) : v <= u

MaxScore(s) == CHOOSE v \in Range(s) : \A u \in Range(s) : u <= v

(* C12: for a non-empty result list and each p of 25, 50, 75, 90, 95, 99 the
   reported percentile is the linear interpolation of the ascending scores
   at index p / 100 * (n - 1): with lo the floor of the index and w its
   fractional part, (1 - w) times the score at lo plus w times the score at
   the ceiling.  Every percentile lies between the least and the greatest
   score, the percentiles do not decrease as p grows, and the 50th is the
   median. *)
PercentilesInterpolate ==
    (calc.fn \in {"GetSearchStats", "generateRangeAnalysis"} /\ Len(calc.results) > 0) =>
        LET s == GivenScores
            n == Len(s)
            pc == ReportedPercentiles
        IN  /\ DOMAIN pc = {25, 50, 75, 90, 95, 99}
            /\ \A p \in DOMAIN pc :
                   LET lo == (p * (n - 1)) \div 100
                       w == (p * (n - 1)) % 100
                       hi == IF w = 0 THEN lo ELSE lo + 1
                   IN  /\ pc[p].den > 0
                       /\ pc[p].num * 100 =
                              (OrderStat(s, lo + 1) * (100 - w) + OrderStat(s, hi + 1) * w)
                                  * pc[p].den
                       /\ RatLeq(Rat(MinScore(s)), pc[p])
                       /\ RatLeq(pc[p], Rat(MaxScore(s)))
            /\ \A p, q \in DOMAIN pc : p < q => RatLeq(pc[p], pc[q])
            /\ RatEq(pc[50], Reported.Median)

(* C12 witness: the statistics of scores that arrive as 4, 1 report the 25th
   percentile 1.75, between the two scores *)
InterpolatedPercentile ==
    /\ calc.fn = "GetSearchStats"
    /\ GivenScores = <<4, 1>>
    /\ RatEq(calc.out.ScoreDistrib.Percentiles[25], [num |-> 7, den |-> 4])

(* The histogram the applied function built and the number of buckets it
   was asked for *)
ReportedBuckets ==
    IF calc.fn = "GetSearchStats" THEN calc.out.ScoreDistrib.Buckets ELSE calc.out

AskedBuckets ==
    IF calc.fn = "GetSearchStats" THEN 10 ELSE calc.numBuckets

RECURSIVE SumCounts(_, _)
SumCounts(buckets, k) ==
    IF k = 0 THEN 0 ELSE buckets[k].Count + SumCounts(buckets, k - 1)

(* C13: for a non-empty result list with min < max and B >= 1 buckets asked
   for, the histogram has exactly B buckets, bucket i (from 1) ranging from
   min + (i - 1) * (max - min) / B to min + i * (max - min) / B, so that the
   buckets have equal width and span [min, max]; the counts sum to the
   number of scores, and the scores can be dealt to the buckets one bucket
   each, each inside the range of its bucket: the first k buckets together
   count every score below the upper end of bucket k and no score above it.
   When min = max the histogram is one bucket from min to max that counts
   all scores. *)
HistogramCoversScores ==
    (/\ calc.fn \in {"GetSearchStats", "generateScoreDistribution"}
     /\ Len(calc.results) > 0
     /\ AskedBuckets >= 1) =>
        LET s == GivenScores
            n == Len(s)
            min == MinScore(s)
            max == MaxScore(s)
            B == AskedBuckets
            h == ReportedBuckets
        IN  IF min = max
            THEN /\ Len(h) = 1
                 /\ RatEq(h[1].Min, Rat(min)) /\ RatEq(h[1].Max, Rat(max))
                 /\ h[1].Count = n
            ELSE /\ Len(h) = B
                 /\ \A i \in 1..B :
                        /\ h[i].Min.den > 0 /\ h[i].Max.den > 0
                        /\ h[i].Min.num * B = (min * B + (i - 1) * (max - min)) * h[i].Min.den
                        /\ h[i].Max.num * B = (min * B + i * (max - min)) * h[i].Max.den
                        /\ h[i].Count >= 0
                        /\ Cardinality({j \in 1..n : s[j] * h[i].Max.den < h[i].Max.num})
                               <= SumCounts(h, i)
                        /\ SumCounts(h, i)
                               <= Cardinality({j \in 1..n : s[j] * h[i].Max.den <= h[i].Max.num})
                 /\ SumCounts(h, B) = n

(* C13 witness: scores that arrive as 5, 1, 3 dealt to two buckets: 1 in the
   bucket from 1 to 3, and 3 and 5 in the bucket from 3 to 5 *)
ScoresDealtToBuckets ==
    /\ calc.fn = "generateScoreDistribution"
    /\ calc.numBuckets = 2
    /\ GivenScores = <<5, 1, 3>>
    /\ calc.out[1].Count = 1 /\ calc.out[2].Count = 2

(* C14: GetSearchStats given no result returns a nil error and statistics
   with TotalResults 0 in which every statistic is zero or empty: the score
   range, mean, median and deviation are 0, and there are no percentiles, no
   buckets and no category counts. *)
EmptyResultsGiveZeroStats ==
    (calc.fn = "GetSearchStats" /\ Len(calc.results) = 0) =>
        /\ calc.out.err = "nil"
        /\ calc.out.TotalResults = 0
        /\ calc.out.ScoreRange.Best = 0 /\ calc.out.ScoreRange.Worst = 0
        /\ \A f \in {calc.out.ScoreRange.Mean, calc.out.ScoreRange.Median,
                     calc.out.ScoreRange.StdDevSq, calc.out.ScoreDistrib.Mean,
                     calc.out.ScoreDistrib.Median, calc.out.ScoreDistrib.StdDevSq} :
               f.num = 0 /\ f.den > 0
        /\ DOMAIN calc.out.ScoreDistrib.Percentiles = {}
        /\ Len(calc.out.ScoreDistrib.Buckets) = 0
        /\ DOMAIN calc.out.CategoryBreakdown = {}

(* C14 witness: GetSearchStats has been applied to the empty result list *)
StatsOfNoResults ==
    /\ calc.fn = "GetSearchStats"
    /\ calc.results = <<>>
    /\ calc.out.TotalResults = 0

----------------------------------------------------------------------------
(* Further properties of phase 2 searching, checked under Spec *)

(* C15: on a table with at least one row, not written to since the command
   searched it, a command whose query has at least one term and matches no
   row (of the filtered category, when one is given) gets the empty list and
   a nil error from Search, and the command itself, search query, stats,
   compare or explain or visualize distribution, categories or range,
   returns nil. *)
NoMatchIsNoError ==
    (/\ Searched
     /\ Len(documents) > 0
     /\ ~QueryIsEmpty(resp.options.Query)
     /\ MatchingRows(resp.options) = {}) =>
        /\ resp.err = "nil"
        /\ resp.results = <<>>
        /\ \A out \in Search(resp.options) : out.err = "nil" /\ out.results = <<>>

(* C15 witness: visualize range has run with a query that matches no row of
   a table that holds rows *)
RangeOfNoMatch ==
    /\ resp.cmd = "range"
    /\ Len(documents) > 0
    /\ ~QueryIsEmpty(resp.options.Query)
    /\ MatchingRows(resp.options) = {}
    /\ resp.results = <<>>

(* C18: the Length of every stored document is the sum of the token counts
   of its title, content and category, and in every explanation search
   explain builds, DocumentStats.Length is the sum of the three
   DocumentStats.FieldLengths. *)
LengthIsSumOfFieldLengths ==
    /\ \A i \in 1..Len(documents) :
           documents[i].Length = Len(Fields(documents[i].Title))
                                 + Len(Fields(documents[i].Content))
                                 + Len(Fields(documents[i].Category))
    /\ (resp.cmd = "explain" /\ resp.err = "nil") =>
           \A e \in 1..Len(resp.explanations) :
               LET x == resp.explanations[e]
               IN  x.Length = x.FieldLengths.title + x.FieldLengths.content
                              + x.FieldLengths.category

----------------------------------------------------------------------------
(* Properties of the per-term score, checked under SpecScore *)

(* Score a is at most score b, both fractions with positive denominators *)
ScoreLeq(a, b) == a.ScoreNum * b.ScoreDen <= b.ScoreNum * a.ScoreDen

(* C16: with the document length and the average length fixed, the score
   calculateTermScore gives a document with one more occurrence of the term
   (one "b" of the content replaced by "a") is at least the score it gave the
   document. *)
TermScoreMonotoneInTF ==
    (calc.fn = "calculateTermScore" /\ calc.occ < calc.tokens) =>
        LET more == TermDoc(calc.occ + 1, calc.tokens)
            next == calculateTermScore(calc.term, more, calc.avg)
        IN  /\ more.Length = calc.result.Length
            /\ next.TF = calc.out.TF + 1
            /\ ScoreLeq(calc.out, next)

(* C17: with the term frequency and a positive average length fixed, the
   length normalization of a document one token longer is strictly greater,
   both factors are positive, and the per-term score of the longer document
   is at most the score of the shorter one. *)
ShorterDocumentScoresHigher ==
    /\ calc.fn = "calculateLengthNormalization" =>
           LET longer == calculateLengthNormalization(calc.result.Length + 1, calc.avg)
           IN  /\ calc.out.num > 0 /\ calc.out.den > 0
               /\ longer.den > 0
               /\ calc.out.num * longer.den < longer.num * calc.out.den
               /\ 1000 * calc.out.num * calc.avg.sum =
                      12 * (25 * calc.avg.sum + 75 * calc.result.Length * calc.avg.n)
                         * calc.out.den
    /\ calc.fn = "calculateTermScore" =>
           LET longer == calculateTermScore(calc.term,
                             [calc.result EXCEPT !.Length = @ + 1], calc.avg)
           IN  /\ longer.TF = calc.out.TF
               /\ calc.out.ScoreDen > 0 /\ longer.ScoreDen > 0
               /\ ScoreLeq(longer, calc.out)

(* C17 witness: a document with occurrences of the term has been scored, and
   the same document one token longer scores strictly less *)
LongerDocumentScoresLess ==
    /\ calc.fn = "calculateTermScore"
    /\ calc.out.TF > 0
    /\ LET longer == calculateTermScore(calc.term,
                         [calc.result EXCEPT !.Length = @ + 1], calc.avg)
       IN  ~ScoreLeq(calc.out, longer)

----------------------------------------------------------------------------
(* Properties of the errors, checked under SpecErr *)

RECURSIVE Reverse(_)
Reverse(s) == IF s = <<>> THEN <<>> ELSE Reverse(Tail(s)) \o <<Head(s)>>

(* C19: an error built by a helper is (errors.Is) the helper's own sentinel,
   and a non-nil error returned by a command handler is exactly one
   sentinel, so that the display functions show the same category when they
   test the sentinels in the opposite order. *)
ErrorKindsDistinguishable ==
    /\ calc.fn \in HelperNames => Is(calc.out, SentinelOf(calc.fn))
    /\ (calc.fn \in HandlerNames /\ calc.out # Nil) =>
           /\ Cardinality({s \in Sentinels : Is(calc.out, s)}) = 1
           /\ CategoryIn(calc.out, Reverse(SimpleOrder)) = displaySimple(calc.out)
           /\ CategoryIn(calc.out, Reverse(SimpleErrorOrder))
                  = displaySimpleError(calc.out)

----------------------------------------------------------------------------
(* Properties of corpus generation, checked under SpecCorpus *)

(* C20: a run of GenerateCorpus with a non-zero seed produces the documents
   that any other run with the same options and the same seed produces,
   whatever the clock shows during that run: the same number of documents,
   each with the same title, content, category and creation time. *)
SameSeedSameCorpus ==
    (calc.fn = "GenerateCorpus" /\ calc.options.Seed # 0) =>
        \A times \in ClockReadings(calc.options) :
            LET other == GeneratedDocuments(calc.options, calc.source, times)
            IN  /\ Len(other) = Len(calc.out)
                /\ \A i \in 1..Len(other) :
                       /\ other[i].Title = calc.out[i].Title
                       /\ other[i].Content = calc.out[i].Content
                       /\ other[i].Category = calc.out[i].Category
                       /\ other[i].Created = calc.out[i].Created

----------------------------------------------------------------------------
(* Further properties of the statistics, checked under SpecStats *)

(* C21: after GetSearchStats on a non-empty result list, ScoreRange.Best is
   the greatest of the result scores and ScoreRange.Worst is the least. *)
BestIsHighestWorstIsLowest ==
    (calc.fn = "GetSearchStats" /\ Len(calc.results) > 0) =>
        /\ calc.out.ScoreRange.Best = MaxScore(GivenScores)
        /\ calc.out.ScoreRange.Worst = MinScore(GivenScores)

----------------------------------------------------------------------------
(* Properties of the comparison, checked under SpecCompare *)

IDsIn(results) == {results[i].ID : i \in 1..Len(results)}

EachOnce(results) ==
    \A i, j \in 1..Len(results) : results[i].ID = results[j].ID => i = j

(* UniqueDocs[s] as Go reads it: empty for a missing key *)
UniqueOf(comp, s) == IF s \in DOMAIN comp.UniqueDocs THEN comp.UniqueDocs[s] ELSE <<>>

(* C22: in the comparison of search compare, CommonDocs holds, each once,
   exactly the documents that are in the result set of every strategy, and
   UniqueDocs[s] exactly those that are in the result set of strategy s
   alone; so every baseline result is in exactly one of CommonDocs and
   UniqueDocs["baseline"], also without --compare-weights. *)
CommonAndUniquePartitionResults ==
    (calc.fn = "HandleCompare" /\ calc.pc = "returned" /\ calc.err = "nil") =>
        LET comp == calc.out
            names == DOMAIN comp.Strategies
            ids(s) == IDsIn(comp.Strategies[s])
        IN  /\ EachOnce(comp.CommonDocs)
            /\ IDsIn(comp.CommonDocs) =
                   {id \in Hits : \A s \in names : id \in ids(s)}
            /\ \A s \in names :
                   /\ EachOnce(UniqueOf(comp, s))
                   /\ IDsIn(UniqueOf(comp, s)) =
                          {id \in ids(s) : \A o \in names \ {s} : id \notin ids(o)}
            /\ \A id \in ids("baseline") :
                   (id \in IDsIn(comp.CommonDocs))
                       # (id \in IDsIn(UniqueOf(comp, "baseline")))

----------------------------------------------------------------------------
(* Properties of the validation suite, checked under SpecSuite *)

AllAddedPassed ==
    \A i \in 1..Len(calc.suite.Results) : calc.suite.Results[i].Passed

CheckNames ==
    <<"SQLite Connection", "FTS5 Support", "Test Data Generation", "BM25 Scoring",
      "Shared Utilities">>

(* HandleValidateAll ran its five checks in order and returned a validation
   error exactly when one of them failed *)
ValidateAllRanEveryCheck ==
    calc.fn = "HandleValidateAll" =>
        /\ Len(calc.suite.Results) = Len(CheckNames)
        /\ \A i \in 1..Len(CheckNames) : calc.suite.Results[i].Name = CheckNames[i]
        /\ (calc.err # Nil) = ~AllAddedPassed
        /\ calc.err # Nil => Is(calc.err, ErrValidation)

(* C23 as stated: after any sequence of AddResult calls IsSuccessful is true
   exactly when all results added so far passed; and HandleValidateAll runs
   its five checks in order, whichever fail, and returns a validation error
   exactly when one failed. *)
SuccessfulIffAllPassed ==
    /\ calc.fn = "IsSuccessful" => (calc.successful = AllAddedPassed)
    /\ ValidateAllRanEveryCheck

(* C23, amended: after any sequence of AddResult calls IsSuccessful is true
   exactly when at least one result was added and all results added so far
   passed (it is false for a suite without results); and HandleValidateAll
   runs its five checks in order, whichever fail, and returns a validation
   error exactly when one failed. *)
SuccessfulIffSomeAndAllPassed ==
    /\ calc.fn = "IsSuccessful" =>
           (calc.successful = (Len(calc.suite.Results) > 0 /\ AllAddedPassed))
    /\ ValidateAllRanEveryCheck

(* HandleValidateAll went on after its first check failed, and IsSuccessful
   was false for it *)
LaterChecksRanAfterFailure ==
    /\ calc.fn = "HandleValidateAll"
    /\ ~calc.suite.Results[1].Passed
    /\ calc.suite.Results[4].Passed
    /\ calc.suite.Total = 5
    /\ ~calc.successful
    /\ Is(calc.err, ErrValidation)

----------------------------------------------------------------------------
(* Further properties of the phase-1 document commands, checked under
   SpecDoc *)

(* C24: UpdateDocument called with a title, a content and a category that
   are each empty or blanks only returns a validation error and leaves the
   table as it was. *)
UpdateWithoutValueIsRejected ==
    (/\ DocReturned("update")
     /\ IsBlank(docResp.title) /\ IsBlank(docResp.content)
     /\ IsBlank(docResp.category)) =>
        docResp.err = "validation" /\ table = prior

----------------------------------------------------------------------------
(* Properties of concurrent updates, checked under SpecUpd *)

(* Call p asked for a new title only, call q for a new content only, of the
   same row, and both have returned without error *)
DisjointUpdatesDone(p, q) ==
    /\ calc.call[p].pc = "returned" /\ calc.call[q].pc = "returned"
    /\ calc.call[p].err = "nil" /\ calc.call[q].err = "nil"
    /\ calc.call[p].args.rowID = calc.call[q].args.rowID
    /\ ~IsBlank(calc.call[p].args.title)
    /\ IsBlank(calc.call[p].args.content) /\ IsBlank(calc.call[p].args.category)
    /\ ~IsBlank(calc.call[q].args.content)
    /\ IsBlank(calc.call[q].args.title) /\ IsBlank(calc.call[q].args.category)

(* C25: two concurrent calls of UpdateDocument on the same row, one giving
   the title only and the other the content only, both take effect: after
   both have returned without error the row holds the title of the one and
   the content of the other, and its category is the one it had. *)
DisjointUpdatesBothTakeEffect ==
    \A p, q \in Updaters :
        DisjointUpdatesDone(p, q) =>
            LET row == table[calc.call[p].args.rowID]
            IN  /\ row.Title = TrimSpace(calc.call[p].args.title)
                /\ row.Content = TrimSpace(calc.call[q].args.content)
                /\ row.Category = <<"x">>

----------------------------------------------------------------------------
(* Further properties of phase 2 searching, checked under Spec *)

(* excellent > good > fair > poor *)
LabelGrade(label) ==
    CASE label = "excellent" -> 3
      [] label = "good" -> 2
      [] label = "fair" -> 1
      [] label = "poor" -> 0

(* C26: in every result list Search returns the relevance labels agree with
   the ranking: a result that precedes another has a label at least as good,
   in the order excellent > good > fair > poor. *)
LabelsAgreeWithRanking ==
    Answered =>
        \A i, j \in 1..Len(resp.results) :
            i < j => LabelGrade(resp.results[i].Relevance)
                         >= LabelGrade(resp.results[j].Relevance)

----------------------------------------------------------------------------
(* Further properties of the transactional commands, checked under SpecTx *)

(* C27: when HandleGenerate has returned nil, then either the user was asked
   and answered something other than yes, and the corpus is as it was; or
   the corpus holds exactly the documents generated (options.Size of them),
   whatever it held before and whether it was cleared after a yes or the
   confirm flag was true. *)
GenerateLeavesSizeDocuments ==
    (run.cmd = "generate" /\ run.pc = "done" /\ run.err = "nil") =>
        IF run.asked /\ ~Confirms(run.answer)
        THEN store = run.before
        ELSE Len(store) = Len(run.docs)

(* C27 witness: generate found more documents than it was to generate, was
   told yes, and has returned nil with the documents it generated and
   nothing else *)
GenerateReplacedCorpus ==
    /\ run.cmd = "generate" /\ run.pc = "done" /\ run.err = "nil"
    /\ run.asked /\ Confirms(run.answer)
    /\ Len(run.before) > Len(run.docs)
    /\ store = StoredRows(run.docs)

(* C28: when BatchInsertDocuments (of either program) or ClearDocuments has
   returned, the transaction it began, if it began one, has been committed
   or rolled back; so it is after an insert of the loop has failed. *)
TransactionEndedAtReturn ==
    run.pc = "done" => txn.state \in {"none", "committed", "rolledback"}

----------------------------------------------------------------------------
(* Further properties of the histogram, checked under SpecStats *)

(* C29: for a non-empty result list and any number of buckets given with
   --buckets, zero and negative numbers too, generateScoreDistribution
   returns: it does not panic on its allocation or on a bucket index. *)
DistributionNeverPanics ==
    (calc.fn = "generateScoreDistribution" /\ Len(calc.results) > 0) =>
        calc.panic = "none"

============================================================================
